---------------------------- MODULE Spec2Model ----------------------------
(***************************************************************************)
(* A model of the SOR archiver: the transform and coder primitives (RLE,   *)
(* MTF, BWT, Huffman, arithmetic coder, PPM wrapper, LZ framing, pattern   *)
(* substitution), the composite pipelines built from them, the per-file    *)
(* method selector, and the archive container with its deduplication       *)
(* table (compressor.py, decompressor.py and the modules they import).     *)
(*                                                                         *)
(* Byte strings are sequences of integers 0..255.  A Python call that may  *)
(* raise is modelled by a result record [ok, val]: ok = FALSE stands for   *)
(* the raised exception.                                                   *)
(***************************************************************************)
EXTENDS Integers, Sequences, FiniteSets, TLC

(***************************************************************************)
(* Results of calls that may raise.                                        *)
(***************************************************************************)
Ok(v) == [ok |-> TRUE, val |-> v]

Err == [ok |-> FALSE, val |-> <<>>]

\* The next step of a chain of calls: F on what r returned, or the exception
\* that r raised.
Then(r, F(_)) == IF r.ok THEN F(r.val) ELSE Err

\* A for loop over the indices lo..hi in ascending order: Body maps the loop state
\* and an index to the next state.  A state with ok = FALSE is a raised
\* exception, which ends the loop.  The range is run as its two halves in turn.
RECURSIVE ForRange(_, _, _, _)
ForRange(Body(_, _), st, lo, hi) ==
    IF ~st.ok \/ lo > hi THEN st
    ELSE IF lo = hi THEN Body(st, lo)
    ELSE ForRange(Body, ForRange(Body, st, lo, (lo + hi) \div 2),
                  ((lo + hi) \div 2) + 1, hi)

\* The value a loop leaves in out, or the exception it raised.
LoopOut(st) == IF st.ok THEN Ok(st.out) ELSE Err

(***************************************************************************)
(* Small helpers over sequences and integers.                              *)
(***************************************************************************)
MinOf(a, b) == IF a <= b THEN a ELSE b

MaxOf(a, b) == IF a >= b THEN a ELSE b

\* Python slice s[lo:hi] with 0 <= lo, clipped to the length of s.
Slice(s, lo, hi) == SubSeq(s, lo + 1, MinOf(hi, Len(s)))

\* Python slice s[lo:].
SliceFrom(s, lo) == SubSeq(s, lo + 1, Len(s))

Repeat(b, n) == [k \in 1..n |-> b]

RECURSIVE Concat(_)
Concat(ss) == IF ss = <<>> THEN <<>> ELSE Head(ss) \o Concat(Tail(ss))

\* Index (1-based) of the first occurrence of x in s; 0 when absent.
IndexOf(s, x) ==
    IF \E k \in 1..Len(s) : s[k] = x
    THEN CHOOSE k \in 1..Len(s) : s[k] = x /\ \A m \in 1..(k - 1) : s[m] # x
    ELSE 0

\* s with its i-th element (1-based) replaced by v.
SetAt(s, i, v) == [k \in 1..Len(s) |-> IF k = i THEN v ELSE s[k]]

Reverse(s) == [i \in 1..Len(s) |-> s[Len(s) + 1 - i]]

SeqRange(s) == {s[k] : k \in 1..Len(s)}

(***************************************************************************)
(* Integers of the byte formats.  TLC's integers are 32-bit, so a decoded  *)
(* integer saturates at BigInt: every length of the model is far below it, *)
(* and the code only compares such integers against lengths or uses them   *)
(* as loop counts that run out of data first.                              *)
(***************************************************************************)
BigInt == 2^30

\* int.from_bytes(b, 'big'); b may be shorter than four bytes (a slice).
RECURSIVE FromBE(_)
FromBE(b) ==
    IF b = <<>> THEN 0
    ELSE LET hi == FromBE(SubSeq(b, 1, Len(b) - 1))
         IN  IF hi >= 2^22 THEN BigInt ELSE hi * 256 + b[Len(b)]

\* int.from_bytes(b, 'little').
RECURSIVE FromLE(_)
FromLE(b) ==
    IF b = <<>> THEN 0
    ELSE LET hi == FromLE(Tail(b))
         IN  IF hi >= 2^22 THEN BigInt ELSE hi * 256 + Head(b)

\* n.to_bytes(4, 'big')
ToBE4(n) == << (n \div 16777216) % 256, (n \div 65536) % 256, (n \div 256) % 256, n % 256 >>

\* struct.pack('<I', n) and n.to_bytes(4, 'little')
ToLE4(n) == << n % 256, (n \div 256) % 256, (n \div 65536) % 256, (n \div 16777216) % 256 >>

\* struct.pack('<H', n)
ToLE2(n) == << n % 256, (n \div 256) % 256 >>

\* n.to_bytes(8, 'little')
ToLE8(n) == ToLE4(n) \o <<0, 0, 0, 0>>

(***************************************************************************)
(* rle.py                                                                  *)
(***************************************************************************)
\* The loop of rle_encode over data[1:], carrying (prev, count) and out.
\* A loop body that lets a run grow past 255.
RleEncodeStep_nolimit(st, b) ==
    IF b = st.prev
    THEN [ok |-> TRUE, prev |-> st.prev, count |-> st.count + 1, out |-> st.out]
    ELSE [ok |-> TRUE, prev |-> b, count |-> 1, out |-> st.out \o <<st.prev, st.count>>]

RleEncodeStep(st, b) ==
    IF b = st.prev /\ st.count < 255
    THEN [ok |-> TRUE, prev |-> st.prev, count |-> st.count + 1, out |-> st.out]
    ELSE [ok |-> TRUE, prev |-> b, count |-> 1, out |-> st.out \o <<st.prev, st.count>>]

RleEncodeLoop(rest, prev, count, out) ==
    LET Last(st) == st.out \o <<st.prev, st.count>>
    IN  Last(ForRange(LAMBDA st, i : RleEncodeStep(st, rest[i]),
                      [ok |-> TRUE, prev |-> prev, count |-> count, out |-> out],
                      1, Len(rest)))

rle_encode(data) ==
    IF data = <<>> THEN <<>> ELSE RleEncodeLoop(Tail(data), Head(data), 1, <<>>)

\* for i in range(0, len(data), 2): out.extend([data[i]] * data[i+1])
RleDecodeLoop(data) ==
    ForRange(LAMBDA st, i : [ok |-> TRUE,
                             out |-> st.out \o Repeat(data[(2 * i) - 1], data[2 * i])],
             [ok |-> TRUE, out |-> <<>>], 1, Len(data) \div 2).out

\* Raises ValueError on an odd length.
rle_decode(data) ==
    IF Len(data) % 2 # 0 THEN Err ELSE Ok(RleDecodeLoop(data))

(***************************************************************************)
(* mtf.py                                                                  *)
(***************************************************************************)
InitialSymbolTable == [k \in 1..256 |-> k - 1]

\* symbol_table.pop(idx); symbol_table.insert(0, byte)   (idx is 0-based)
MoveToFront(table, idx) ==
    <<table[idx + 1]>> \o SubSeq(table, 1, idx) \o SubSeq(table, idx + 2, Len(table))

\* One byte of the loop of mtf_encode on st = [ok, table, out].
MtfEncodeStep(st, byte) ==
    LET Moved(idx) == [ok |-> TRUE, table |-> MoveToFront(st.table, idx),
                       out |-> Append(st.out, idx)]
    IN  Moved(IndexOf(st.table, byte) - 1)

MtfEncodeLoop(data, table) ==
    ForRange(LAMBDA st, i : MtfEncodeStep(st, data[i]),
             [ok |-> TRUE, table |-> table, out |-> <<>>], 1, Len(data)).out

mtf_encode(data) == MtfEncodeLoop(data, InitialSymbolTable)

\* A loop body that leaves the table as it is.
MtfDecodeStep_static(st, idx) ==
    IF idx >= Len(st.table) THEN [ok |-> FALSE, table |-> st.table, out |-> st.out]
    ELSE [ok |-> TRUE, table |-> st.table, out |-> Append(st.out, st.table[idx + 1])]

\* One index of the loop of mtf_decode on st = [ok, table, out];
\* symbol_table[idx] raises IndexError when idx is past the end of the table
\* (idx > 255).
MtfDecodeStep(st, idx) ==
    IF idx >= Len(st.table) THEN [ok |-> FALSE, table |-> st.table, out |-> st.out]
    ELSE [ok |-> TRUE, table |-> MoveToFront(st.table, idx),
          out |-> Append(st.out, st.table[idx + 1])]

MtfDecodeLoop(data, table) ==
    LoopOut(ForRange(LAMBDA st, i : MtfDecodeStep(st, data[i]),
                     [ok |-> TRUE, table |-> table, out |-> <<>>], 1, Len(data)))

mtf_decode(data) == MtfDecodeLoop(data, InitialSymbolTable)

mtf_decode_to_list(data) == MtfDecodeLoop(data, InitialSymbolTable)

(***************************************************************************)
(* bwt.py                                                                  *)
(***************************************************************************)
\* get_rotation(i) = data[i:] + data[:i]
get_rotation(data, i) == SubSeq(data, i + 1, Len(data)) \o SubSeq(data, 1, i)

\* Comparison of two byte strings of the same length.
LexLess(a, b) ==
    \E k \in 1..Len(a) : a[k] < b[k] /\ \A m \in 1..(k - 1) : a[m] = b[m]

\* indices.sort(key=get_rotation): a stable sort, so equal rotations keep the
\* order of their indices.
SortedRotations(data) ==
    LET n == Len(data)
        rot == [i \in 0..(n - 1) |-> get_rotation(data, i)]
        Before(j, i) == LexLess(rot[j], rot[i]) \/ (rot[j] = rot[i] /\ j < i)
        rank == [i \in 0..(n - 1) |-> Cardinality({j \in 0..(n - 1) : Before(j, i)})]
    IN  [k \in 1..n |-> CHOOSE i \in 0..(n - 1) : rank[i] = k - 1]

\* Returns <<last_column, original_index>>.
bwt_encode(data) ==
    LET n == Len(data)
        indices == SortedRotations(data)
    IN  IF n = 0 THEN << <<>>, 0 >>
        ELSE << [k \in 1..n |-> data[((indices[k] - 1) % n) + 1]],
                IndexOf(indices, 0) - 1 >>

bwt_encode_block(data, block_size) ==
    IF Len(data) = 0 THEN <<>>
    ELSE IF Len(data) <= block_size
    THEN LET e == bwt_encode(data) IN ToBE4(e[2]) \o e[1]
    ELSE LET nblocks == (Len(data) + block_size - 1) \div block_size
             block(k) == Slice(data, (k - 1) * block_size, k * block_size)
             info(k) == LET e == bwt_encode(block(k)) IN ToBE4(e[2]) \o e[1]
         IN  ToBE4(nblocks) \o
             Concat([k \in 1..nblocks |-> ToBE4(Len(info(k))) \o info(k)])

\* An LF map without the count of the earlier occurrences of the byte.
LFMap_noocc(data, i) == Cardinality({j \in 1..Len(data) : data[j] < data[i + 1]})

\* lf[i] = cum_count[b] + occ[b] at the time position i is reached (i 0-based).
LFMap(data, i) ==
    Cardinality({j \in 1..Len(data) : data[j] < data[i + 1]})
    + Cardinality({j \in 1..i : data[j] = data[i + 1]})

\* The restore loop, which fills res from its last position down: the bytes
\* data[p], data[lf[p]], ... for k steps, in the order the loop meets them.
RECURSIVE BwtRestore(_, _, _)
BwtRestore(data, p, k) ==
    IF k = 0 THEN <<>>
    ELSE <<data[p + 1]>> \o BwtRestore(data, LFMap(data, p), k - 1)

\* data[p] raises IndexError when index is not a position of data.
bwt_decode(data, index) ==
    IF Len(data) = 0 THEN Ok(<<>>)
    ELSE IF index >= Len(data) THEN Err
    ELSE Ok(Reverse(BwtRestore(data, index, Len(data))))

\* The block loop of bwt_decode_block, from offset pos with k blocks to go.
RECURSIVE BwtDecodeBlocks(_, _, _)
BwtDecodeBlocks(data, pos, k) ==
    IF k = 0 THEN Ok(<<>>)
    ELSE IF pos + 4 > Len(data) THEN Err
    ELSE LET block_size == FromBE(Slice(data, pos, pos + 4))
         IN  IF pos + 4 + block_size > Len(data) THEN Err
             ELSE LET block_data == Slice(data, pos + 4, pos + 4 + block_size)
                      bwt_index == FromBE(Slice(block_data, 0, 4))
                      original_block == bwt_decode(SliceFrom(block_data, 4), bwt_index)
                      rest == BwtDecodeBlocks(data, pos + 4 + block_size, k - 1)
                  IN  IF original_block.ok /\ rest.ok
                      THEN Ok(original_block.val \o rest.val)
                      ELSE Err

bwt_decode_block(data) ==
    IF Len(data) = 0 THEN Ok(<<>>)
    ELSE IF Len(data) < 4 THEN Err
    ELSE IF Len(data) > 4 /\ FromBE(Slice(data, 0, 4)) < Len(data) - 4
    THEN bwt_decode(SliceFrom(data, 4), FromBE(Slice(data, 0, 4)))
    ELSE BwtDecodeBlocks(data, 4, FromBE(Slice(data, 0, 4)))

(***************************************************************************)
(* Bits and bytes.                                                         *)
(***************************************************************************)
\* f'{byte:08b}': the eight bits of a byte, most significant first.
BitsOfByte(b) == [k \in 1..8 |-> (b \div (2^(8 - k))) % 2]

\* ''.join(f'{byte:08b}' for byte in data)
BitsOfBytes(data) ==
    [k \in 1..(8 * Len(data)) |-> BitsOfByte(data[((k - 1) \div 8) + 1])[((k - 1) % 8) + 1]]

\* int(bitstr[i:i+8], 2) of one group of eight bits.
ByteOfBits(bits) ==
    bits[1] * 128 + bits[2] * 64 + bits[3] * 32 + bits[4] * 16
    + bits[5] * 8 + bits[6] * 4 + bits[7] * 2 + bits[8]

\* The bytes of a bit string whose length is a multiple of eight.
BytesOfBits(bits) ==
    [j \in 1..(Len(bits) \div 8) |-> ByteOfBits(SubSeq(bits, (8 * j) - 7, 8 * j))]

(***************************************************************************)
(* huffman.py.  A Node is a record [symbol, freq, left, right]; None, the  *)
(* symbol of an internal node and the child of a leaf, is NoneVal.         *)
(***************************************************************************)
NoneVal == -1

Leaf(s, f) == [symbol |-> s, freq |-> f, left |-> NoneVal, right |-> NoneVal]

Merged(n1, n2) ==
    [symbol |-> NoneVal, freq |-> n1.freq + n2.freq, left |-> n1, right |-> n2]

\* Counter(data): the distinct symbols in order of first occurrence.
CounterKeys(data, seen) ==
    ForRange(LAMBDA st, i : IF data[i] \in st.seen THEN st
                            ELSE [ok |-> TRUE, seen |-> st.seen \cup {data[i]},
                                  out |-> Append(st.out, data[i])],
             [ok |-> TRUE, seen |-> seen, out |-> <<>>], 1, Len(data)).out

CountOf(data, s) == Cardinality({k \in 1..Len(data) : data[k] = s})

\* heapq._siftdown(heap, startpos, pos); Node.__lt__ compares freq only.
RECURSIVE SiftDownLoop(_, _, _, _)
SiftDownLoop(heap, startpos, pos, newitem) ==
    LET parentpos == (pos - 1) \div 2
    IN  IF pos > startpos /\ newitem.freq < heap[parentpos + 1].freq
        THEN SiftDownLoop(SetAt(heap, pos + 1, heap[parentpos + 1]),
                          startpos, parentpos, newitem)
        ELSE SetAt(heap, pos + 1, newitem)

SiftDown(heap, startpos, pos) == SiftDownLoop(heap, startpos, pos, heap[pos + 1])

\* heapq._siftup(heap, pos): bubble the smaller child up to a leaf, then sift down.
RECURSIVE SiftUpLoop(_, _, _, _)
SiftUpLoop(heap, startpos, pos, newitem) ==
    LET endpos == Len(heap)
        leftpos == 2 * pos + 1
        rightpos == leftpos + 1
        childpos == IF rightpos < endpos
                       /\ ~(heap[leftpos + 1].freq < heap[rightpos + 1].freq)
                    THEN rightpos ELSE leftpos
    IN  IF leftpos < endpos
        THEN SiftUpLoop(SetAt(heap, pos + 1, heap[childpos + 1]),
                        startpos, childpos, newitem)
        ELSE SiftDown(SetAt(heap, pos + 1, newitem), startpos, pos)

SiftUp(heap, pos) == SiftUpLoop(heap, pos, pos, heap[pos + 1])

\* heapq.heapify(x): for i in reversed(range(n // 2)): _siftup(x, i)
RECURSIVE HeapifyLoop(_, _)
HeapifyLoop(heap, i) ==
    IF i < 0 THEN heap ELSE HeapifyLoop(SiftUp(heap, i), i - 1)

Heapify(heap) == HeapifyLoop(heap, (Len(heap) \div 2) - 1)

\* heapq.heappop(heap): <<the popped item, the heap left>>.
HeapPop(heap) ==
    LET lastelt == heap[Len(heap)]
        rest == SubSeq(heap, 1, Len(heap) - 1)
    IN  IF rest = <<>> THEN <<lastelt, rest>>
        ELSE <<rest[1], SiftUp(SetAt(rest, 1, lastelt), 0)>>

\* heapq.heappush(heap, item)
HeapPush(heap, item) == SiftDown(Append(heap, item), 0, Len(heap))

RECURSIVE MergeLoop(_)
MergeLoop(heap) ==
    IF Len(heap) <= 1 THEN heap
    ELSE LET p1 == HeapPop(heap)
             p2 == HeapPop(p1[2])
         IN  MergeLoop(HeapPush(p2[2], Merged(p1[1], p2[1])))

\* The tree of a non-empty symbol list (None for an empty one is not modelled:
\* every caller passes a non-empty list).
build_huffman_tree(data) ==
    LET keys == CounterKeys(data, {})
        nodes == [k \in 1..Len(keys) |-> Leaf(keys[k], CountOf(data, keys[k]))]
    IN  MergeLoop(Heapify(nodes))[1]

\* The code table as a set of <<symbol, code>> pairs; a lone leaf gets "0".
RECURSIVE build_code_table(_, _)
build_code_table(node, prefix) ==
    IF node.symbol # NoneVal
    THEN {<<node.symbol, IF prefix = <<>> THEN <<0>> ELSE prefix>>}
    ELSE build_code_table(node.left, prefix \o <<0>>)
         \cup build_code_table(node.right, prefix \o <<1>>)

CodeOf(table, sym) == (CHOOSE e \in table : e[1] = sym)[2]

\* ''.join(code_table[b] for b in data)
EncodeSymbols(data, table) ==
    ForRange(LAMBDA st, i : [ok |-> TRUE, out |-> st.out \o CodeOf(table, data[i])],
             [ok |-> TRUE, out |-> <<>>], 1, Len(data)).out

\* serialize_tree / deserialize_tree keep the shape and the symbols and drop the
\* frequencies: the tree as the decoder rebuilds it.
RECURSIVE serialize_tree(_)
serialize_tree(node) ==
    IF node.symbol # NoneVal THEN Leaf(node.symbol, 0)
    ELSE [symbol |-> NoneVal, freq |-> 0,
          left |-> serialize_tree(node.left), right |-> serialize_tree(node.right)]

\* Returns [data, tree_dict], tree_dict = [tree, padding].
huffman_encode(data) ==
    LET tree == build_huffman_tree(data)
        bitstr == EncodeSymbols(data, build_code_table(tree, <<>>))
        padding == (8 - (Len(bitstr) % 8)) % 8
    IN  [data |-> BytesOfBits(bitstr \o Repeat(0, padding)),
         tree_dict |-> [tree |-> serialize_tree(tree), padding |-> padding]]

\* One bit of the decoding loop on st = [ok, node, out].  The children of a leaf
\* are None: stepping from a root that is itself a leaf reaches None, and
\* None.symbol raises AttributeError.
HuffmanStep(st, bit, root) ==
    IF st.node.symbol # NoneVal THEN [ok |-> FALSE, node |-> st.node, out |-> st.out]
    ELSE LET node == IF bit = 0 THEN st.node.left ELSE st.node.right
         IN  IF node.symbol # NoneVal
             THEN [ok |-> TRUE, node |-> root, out |-> Append(st.out, node.symbol)]
             ELSE [ok |-> TRUE, node |-> node, out |-> st.out]

\* The symbols decoded from the bits after position pos; bits left over after
\* the last leaf are dropped.
HuffmanWalk(bits, pos, root) ==
    LoopOut(ForRange(LAMBDA st, i : HuffmanStep(st, bits[i], root),
                     [ok |-> TRUE, node |-> root, out |-> <<>>], pos + 1, Len(bits)))

\* A decoder that walks the padding bits as well.
huffman_decode_nopad(data, tree_dict) == HuffmanWalk(BitsOfBytes(data), 0, tree_dict.tree)

huffman_decode(data, tree_dict) ==
    LET bitstr == BitsOfBytes(data)
        padding == tree_dict.padding
        kept == IF padding > 0
                THEN SubSeq(bitstr, 1, MaxOf(0, Len(bitstr) - padding))
                ELSE bitstr
    IN  HuffmanWalk(kept, 0, tree_dict.tree)

(***************************************************************************)
(* arithmetic.py.  The coder is modelled at PRECISION bits: TLC's integers *)
(* are 32-bit, so the 32-bit registers of the source (PRECISION = 32) do   *)
(* not fit; every other line of the coder is as in the source.             *)
(***************************************************************************)
PRECISION == 16

MAX_RANGE == 2^PRECISION

MASK == MAX_RANGE - 1

HALF == 2^(PRECISION - 1)

QUARTER == 2^(PRECISION - 2)

\* sorted(freq): the distinct symbols in ascending order.
RECURSIVE SortedSeq(_)
SortedSeq(S) ==
    IF S = {} THEN <<>>
    ELSE LET m == CHOOSE v \in S : \A w \in S : v <= w
         IN  <<m>> \o SortedSeq(S \ {m})

\* The model of a symbol list: [freq, total, precision, len], freq a function
\* from the symbols to their counts.
ModelOf(data) ==
    [freq |-> [sy \in SeqRange(data) |-> CountOf(data, sy)],
     total |-> Len(data), precision |-> PRECISION, len |-> Len(data)]

\* cum[s]: the counts of the symbols below s.
RECURSIVE SumFreq(_, _)
SumFreq(freq, S) ==
    IF S = {} THEN 0
    ELSE LET v == CHOOSE w \in S : TRUE IN freq[v] + SumFreq(freq, S \ {v})

CumOf(freq, sy) == SumFreq(freq, {w \in DOMAIN freq : w < sy})

\* `pending` copies of a bit.
PendingBits(bit, pending) == Repeat(bit, pending)

\* A renormalisation loop without the middle case (low >= QUARTER and
\* high < 3 * QUARTER).
RECURSIVE EncRenorm_nomiddle(_)
EncRenorm_nomiddle(st) ==
    IF st.high < HALF
    THEN EncRenorm_nomiddle([low |-> (st.low * 2) % MAX_RANGE,
                             high |-> ((st.high * 2) % MAX_RANGE) + 1,
                             pending |-> 0,
                             bits |-> st.bits \o <<0>> \o PendingBits(1, st.pending)])
    ELSE IF st.low >= HALF
    THEN EncRenorm_nomiddle([low |-> ((st.low - HALF) * 2) % MAX_RANGE,
                             high |-> (((st.high - HALF) * 2) % MAX_RANGE) + 1,
                             pending |-> 0,
                             bits |-> st.bits \o <<1>> \o PendingBits(0, st.pending)])
    ELSE st

\* The renormalisation loop of the encoder on st = [low, high, pending, bits].
RECURSIVE EncRenorm(_)
EncRenorm(st) ==
    IF st.high < HALF
    THEN EncRenorm([low |-> (st.low * 2) % MAX_RANGE,
                    high |-> ((st.high * 2) % MAX_RANGE) + 1,
                    pending |-> 0,
                    bits |-> st.bits \o <<0>> \o PendingBits(1, st.pending)])
    ELSE IF st.low >= HALF
    THEN EncRenorm([low |-> ((st.low - HALF) * 2) % MAX_RANGE,
                    high |-> (((st.high - HALF) * 2) % MAX_RANGE) + 1,
                    pending |-> 0,
                    bits |-> st.bits \o <<1>> \o PendingBits(0, st.pending)])
    ELSE IF st.low >= QUARTER /\ st.high < 3 * QUARTER
    THEN EncRenorm([low |-> ((st.low - QUARTER) * 2) % MAX_RANGE,
                    high |-> (((st.high - QUARTER) * 2) % MAX_RANGE) + 1,
                    pending |-> st.pending + 1,
                    bits |-> st.bits])
    ELSE st

\* One symbol d of the encoder loop.
EncStep(st, d, model) ==
    LET r == st.high - st.low + 1
        c == CumOf(model.freq, d)
        f == model.freq[d]
    IN  EncRenorm([low |-> st.low + ((r * c) \div model.total),
                   high |-> st.low + ((r * (c + f)) \div model.total) - 1,
                   pending |-> st.pending,
                   bits |-> st.bits])

\* The encoder loop over the symbols of data, from the registers st.
EncLoop(data, st, model) ==
    ForRange(LAMBDA s, i : [ok |-> TRUE, reg |-> EncStep(s.reg, data[i], model)],
             [ok |-> TRUE, reg |-> st], 1, Len(data)).reg

\* A flush that writes out the bits of the loop and leaves out the last ones.
EncFlush_bare(st) == BytesOfBits(st.bits \o Repeat(0, (8 - (Len(st.bits) % 8)) % 8))

\* The flush after the loop, and BitWriter.flush: zero bits fill the last byte.
EncFlush(st) ==
    LET bits == IF st.low < QUARTER
                THEN st.bits \o <<0>> \o PendingBits(1, st.pending + 1)
                ELSE st.bits \o <<1>> \o PendingBits(0, st.pending + 1)
    IN  BytesOfBits(bits \o Repeat(0, (8 - (Len(bits) % 8)) % 8))

\* Returns [data, model].
arithmetic_encode(data) ==
    LET model == ModelOf(data)
        st0 == [low |-> 0, high |-> MASK, pending |-> 0, bits |-> <<>>]
    IN  [data |-> EncFlush(EncLoop(data, st0, model)), model |-> model]

\* BitReader.read at bit position pos (0-based): zero past the end of the data.
ReadBit(bits, pos) == IF pos < Len(bits) THEN bits[pos + 1] ELSE 0

\* The first PRECISION bits.
RECURSIVE InitialValue(_, _)
InitialValue(bits, k) ==
    IF k = 0 THEN 0 ELSE InitialValue(bits, k - 1) * 2 + ReadBit(bits, k - 1)

\* The renormalisation loop of the decoder on st = [low, high, value, pos].
RECURSIVE DecRenorm(_, _)
DecRenorm(st, bits) ==
    LET sub == IF st.high < HALF THEN 0
               ELSE IF st.low >= HALF THEN HALF
               ELSE QUARTER
    IN  IF st.high < HALF \/ st.low >= HALF
           \/ (st.low >= QUARTER /\ st.high < 3 * QUARTER)
        THEN DecRenorm([low |-> ((st.low - sub) * 2) % MAX_RANGE,
                        high |-> (((st.high - sub) * 2) % MAX_RANGE) + 1,
                        value |-> (((st.value - sub) * 2) % MAX_RANGE)
                                  + ReadBit(bits, st.pos),
                        pos |-> st.pos + 1], bits)
        ELSE st

\* One pass of the decoder loop on st = [ok, low, high, value, pos, out].  A
\* pass whose x matches no symbol emits nothing; total = 0 raises
\* ZeroDivisionError.
DecStep(st, bits, model) ==
    IF model.total = 0 THEN [st EXCEPT !.ok = FALSE]
    ELSE LET r == st.high - st.low + 1
             xx == (((st.value - st.low + 1) * model.total) - 1) \div r
             hit == {sy \in DOMAIN model.freq :
                       CumOf(model.freq, sy) + model.freq[sy] > xx
                       /\ xx >= CumOf(model.freq, sy)}
         IN  IF hit = {} THEN st
             ELSE LET sy == CHOOSE v \in hit : \A w \in hit : v <= w
                      c == CumOf(model.freq, sy)
                      f == model.freq[sy]
                      st2 == DecRenorm(
                                [low |-> st.low + ((r * c) \div model.total),
                                 high |-> st.low + ((r * (c + f)) \div model.total) - 1,
                                 value |-> st.value, pos |-> st.pos], bits)
                  IN  [ok |-> TRUE, low |-> st2.low, high |-> st2.high,
                       value |-> st2.value, pos |-> st2.pos,
                       out |-> Append(st.out, sy)]

\* The decoder loop: k passes from the registers st = [low, high, value, pos].
DecLoop(k, st, bits, model) ==
    LoopOut(ForRange(LAMBDA s, i : DecStep(s, bits, model),
                     [ok |-> TRUE, low |-> st.low, high |-> st.high,
                      value |-> st.value, pos |-> st.pos, out |-> <<>>], 1, k))

arithmetic_decode(data, model) ==
    LET bits == BitsOfBytes(data)
    IN  DecLoop(model.len,
                [low |-> 0, high |-> MASK, value |-> InitialValue(bits, PRECISION),
                 pos |-> PRECISION],
                bits, model)

(***************************************************************************)
(* ppm.py: the order is recorded and otherwise ignored.                    *)
(***************************************************************************)
\* Returns [data, model_info, ppm_model].
ppm_encode(data, order) ==
    LET e == arithmetic_encode(data)
    IN  [data |-> e.data, model_info |-> e.model, ppm_model |-> [order |-> order]]

ppm_decode_to_list(enc_bytes, model_info, ppm_model) ==
    arithmetic_decode(enc_bytes, model_info)

(***************************************************************************)
(* pickle.dumps / pickle.loads (external serialiser).  The model needs a   *)
(* lossless byte form whose length is part of the payload; it uses one     *)
(* tagged form per pickled object.  loads ignores bytes after the object   *)
(* and raises on anything that is not the pickled object expected.         *)
(***************************************************************************)
PICKLE_TREE == 201

PICKLE_MODEL == 202

PICKLE_META == 203

PICKLE_TABLE == 204

RECURSIVE DumpTree(_)
DumpTree(node) ==
    IF node.symbol # NoneVal THEN <<1, node.symbol>>
    ELSE <<0>> \o DumpTree(node.left) \o DumpTree(node.right)

\* Parses a tree from offset pos: [ok, node, pos].
RECURSIVE LoadTree(_, _)
LoadTree(b, pos) ==
    IF pos >= Len(b) THEN [ok |-> FALSE, node |-> NoneVal, pos |-> pos]
    ELSE IF b[pos + 1] = 1
    THEN IF pos + 1 >= Len(b) THEN [ok |-> FALSE, node |-> NoneVal, pos |-> pos]
         ELSE [ok |-> TRUE, node |-> Leaf(b[pos + 2], 0), pos |-> pos + 2]
    ELSE IF b[pos + 1] = 0
    THEN LET l == LoadTree(b, pos + 1)
             r == LoadTree(b, l.pos)
         IN  IF l.ok /\ r.ok
             THEN [ok |-> TRUE,
                   node |-> [symbol |-> NoneVal, freq |-> 0,
                             left |-> l.node, right |-> r.node],
                   pos |-> r.pos]
             ELSE [ok |-> FALSE, node |-> NoneVal, pos |-> pos]
    ELSE [ok |-> FALSE, node |-> NoneVal, pos |-> pos]

\* pickle.dumps(tree_dict, protocol=4), tree_dict = [tree, padding]
DumpTreeDict(tree_dict) == <<PICKLE_TREE, tree_dict.padding>> \o DumpTree(tree_dict.tree)

LoadTreeDict(b) ==
    IF Len(b) < 2 \/ b[1] # PICKLE_TREE THEN Err
    ELSE LET t == LoadTree(b, 2)
         IN  IF t.ok THEN Ok([tree |-> t.node, padding |-> b[2]]) ELSE Err

RECURSIVE DumpFreq(_, _)
DumpFreq(freq, syms) ==
    IF syms = <<>> THEN <<>>
    ELSE <<Head(syms), freq[Head(syms)]>> \o DumpFreq(freq, Tail(syms))

\* The body of a pickled arithmetic model: n, (symbol, count)*, total, precision, len.
DumpModelBody(model) ==
    LET syms == SortedSeq(DOMAIN model.freq)
    IN  <<Len(syms)>> \o DumpFreq(model.freq, syms)
        \o <<model.total, model.precision, model.len>>

\* Parses a model body from offset pos: [ok, model, pos].
LoadModelBody(b, pos) ==
    LET n == IF pos < Len(b) THEN b[pos + 1] ELSE 0
        end == pos + 1 + 2 * n + 3
        syms == {b[pos + 2 * k] : k \in 1..n}
    IN  IF pos >= Len(b) \/ end > Len(b) \/ Cardinality(syms) # n
        THEN [ok |-> FALSE, model |-> <<>>, pos |-> pos]
        ELSE [ok |-> TRUE,
              model |-> [freq |-> [sy \in syms |->
                                     b[(CHOOSE k \in 1..n : b[pos + 2 * k] = sy) * 2 + pos + 1]],
                         total |-> b[end - 2], precision |-> b[end - 1], len |-> b[end]],
              pos |-> end]

\* pickle.dumps(model, protocol=4)
DumpModel(model) == <<PICKLE_MODEL>> \o DumpModelBody(model)

LoadModel(b) ==
    IF Len(b) < 1 \/ b[1] # PICKLE_MODEL THEN Err
    ELSE LET m == LoadModelBody(b, 1) IN IF m.ok THEN Ok(m.model) ELSE Err

\* One entry of meta['block_infos']: [data_len, model_info, ppm_model, mtf_len].
DumpBlockInfo(info) ==
    <<info.data_len, info.ppm_model.order, info.mtf_len>> \o DumpModelBody(info.model_info)

RECURSIVE DumpBlockInfos(_)
DumpBlockInfos(infos) ==
    IF infos = <<>> THEN <<>>
    ELSE DumpBlockInfo(Head(infos)) \o DumpBlockInfos(Tail(infos))

\* pickle.dumps(meta), meta = [num_blocks, block_infos]
DumpMeta(meta) ==
    <<PICKLE_META, meta.num_blocks, Len(meta.block_infos)>> \o DumpBlockInfos(meta.block_infos)

\* Parses k block infos from offset pos: [ok, infos].
RECURSIVE LoadBlockInfos(_, _, _)
LoadBlockInfos(b, pos, k) ==
    IF k = 0 THEN [ok |-> TRUE, infos |-> <<>>]
    ELSE IF pos + 3 > Len(b) THEN [ok |-> FALSE, infos |-> <<>>]
    ELSE LET m == LoadModelBody(b, pos + 3)
             rest == LoadBlockInfos(b, m.pos, k - 1)
         IN  IF m.ok /\ rest.ok
             THEN [ok |-> TRUE,
                   infos |-> <<[data_len |-> b[pos + 1], model_info |-> m.model,
                                ppm_model |-> [order |-> b[pos + 2]],
                                mtf_len |-> b[pos + 3]]>> \o rest.infos]
             ELSE [ok |-> FALSE, infos |-> <<>>]

LoadMeta(b) ==
    IF Len(b) < 3 \/ b[1] # PICKLE_META THEN Err
    ELSE LET r == LoadBlockInfos(b, 3, b[3])
         IN  IF r.ok THEN Ok([num_blocks |-> b[2], block_infos |-> r.infos]) ELSE Err

\* pickle.dumps(subst_table): the table is the sequence of its patterns, the
\* k-th one under code SUBST_CODES[k-1].
RECURSIVE DumpPatterns(_)
DumpPatterns(table) ==
    IF table = <<>> THEN <<>>
    ELSE <<Len(Head(table))>> \o Head(table) \o DumpPatterns(Tail(table))

DumpTable(table) == <<PICKLE_TABLE, Len(table)>> \o DumpPatterns(table)

RECURSIVE LoadPatterns(_, _, _)
LoadPatterns(b, pos, k) ==
    IF k = 0 THEN Ok(<<>>)
    ELSE IF pos >= Len(b) \/ pos + 1 + b[pos + 1] > Len(b) THEN Err
    ELSE LET rest == LoadPatterns(b, pos + 1 + b[pos + 1], k - 1)
         IN  IF rest.ok
             THEN Ok(<<Slice(b, pos + 1, pos + 1 + b[pos + 1])>> \o rest.val)
             ELSE Err

LoadTable(b) ==
    IF Len(b) < 2 \/ b[1] # PICKLE_TABLE THEN Err ELSE LoadPatterns(b, 2, b[2])

(***************************************************************************)
(* The LZ library (lzma.compress / lzma.decompress with FORMAT_RAW), an    *)
(* external lossless coder.  The model's raw stream is a list of           *)
(* (count, byte) runs closed by an end marker; the preset does not change  *)
(* it.  Decoding raises on a stream that is not of that form.              *)
(***************************************************************************)
LZ_END == 0

RECURSIVE RawRuns(_, _, _)
RawRuns(rest, prev, count) ==
    IF rest = <<>> THEN <<count, prev>>
    ELSE IF Head(rest) = prev /\ count < 255 THEN RawRuns(Tail(rest), prev, count + 1)
    ELSE <<count, prev>> \o RawRuns(Tail(rest), Head(rest), 1)

lzma_compress_raw(data, preset) ==
    (IF data = <<>> THEN <<>> ELSE RawRuns(Tail(data), Head(data), 1)) \o <<LZ_END>>

RECURSIVE lzma_decompress_raw(_)
lzma_decompress_raw(b) ==
    IF b = <<>> THEN Err
    ELSE IF Head(b) = LZ_END THEN (IF Len(b) = 1 THEN Ok(<<>>) ELSE Err)
    ELSE IF Len(b) < 2 THEN Err
    ELSE LET rest == lzma_decompress_raw(SubSeq(b, 3, Len(b)))
         IN  IF rest.ok THEN Ok(Repeat(b[2], b[1]) \o rest.val) ELSE Err

(***************************************************************************)
(* s_lzma.py                                                               *)
(***************************************************************************)
\* prop_byte = 3 + 0 * 9 + 2 * 45, dict_size = 1 << 23 as four little-endian bytes
LzmaHeader(n) == <<93>> \o <<0, 0, 128, 0>> \o ToLE8(n)

\* LZMACompressor.compress
LzmaCompress(data, preset) == LzmaHeader(Len(data)) \o lzma_compress_raw(data, preset)

\* LZMACompressor.decompress: the header is parsed, the size in it is not used.
LzmaDecompress(data) ==
    IF Len(data) < 13 THEN Err ELSE lzma_decompress_raw(SliceFrom(data, 13))

\* The default bwt_block_size of bwt_lzma_compress (1024 * 1024 in the source),
\* scaled down.
LZMA_BWT_BLOCK_SIZE == 6

\* LZMACompressor.bwt_lzma_compress
bwt_lzma_compress(data, bwt_block_size, lzma_preset) ==
    IF Len(data) = 0 THEN <<>>
    ELSE IF Len(data) < bwt_block_size THEN LzmaCompress(data, lzma_preset)
    ELSE LET nblocks == (Len(data) + bwt_block_size - 1) \div bwt_block_size
             block(k) == Slice(data, (k - 1) * bwt_block_size, k * bwt_block_size)
             info(k) == LET e == bwt_encode(block(k))
                        IN  ToBE4(e[2]) \o LzmaCompress(rle_encode(e[1]), lzma_preset)
         IN  ToBE4(nblocks) \o
             Concat([k \in 1..nblocks |-> ToBE4(Len(info(k))) \o info(k)])

\* The block loop of bwt_lzma_decompress, from offset pos with k blocks to go.
RECURSIVE BwtLzmaBlocks(_, _, _)
BwtLzmaBlocks(data, pos, k) ==
    IF k = 0 THEN Ok(<<>>)
    ELSE IF pos + 4 > Len(data) THEN Err
    ELSE LET block_size == FromBE(Slice(data, pos, pos + 4))
         IN  IF pos + 4 + block_size > Len(data) THEN Err
             ELSE LET block_data == Slice(data, pos + 4, pos + 4 + block_size)
                      bwt_index == FromBE(Slice(block_data, 0, 4))
                      rle_data == LzmaDecompress(SliceFrom(block_data, 4))
                      bwt_data == IF rle_data.ok THEN rle_decode(rle_data.val) ELSE Err
                      original_block == IF bwt_data.ok
                                        THEN bwt_decode(bwt_data.val, bwt_index)
                                        ELSE Err
                      rest == IF original_block.ok
                              THEN BwtLzmaBlocks(data, pos + 4 + block_size, k - 1)
                              ELSE Err
                  IN  IF rest.ok THEN Ok(original_block.val \o rest.val) ELSE Err

\* LZMACompressor.bwt_lzma_decompress
bwt_lzma_decompress(data) ==
    IF Len(data) = 0 THEN Ok(<<>>)
    ELSE IF Len(data) < 4 THEN Err
    ELSE BwtLzmaBlocks(data, 4, FromBE(Slice(data, 0, 4)))

(***************************************************************************)
(* pattern_subst.py.  The substitution table is the sequence of its        *)
(* patterns in insertion order; the k-th pattern has code SUBST_BASE+k-1.  *)
(***************************************************************************)
SUBST_BASE == 240

PAT_MINLEN == 2

PAT_MAXLEN == 8

PAT_TOPN == 8

\* patterns.most_common(topn): by descending count; equal counts keep the order
\* of first insertion into the Counter (shorter first, then leftmost first).
MostCommon(data, topn) ==
    LET n == Len(data)
        sub(l, i) == SubSeq(data, i + 1, i + l)
        pats == UNION {{sub(l, i) : i \in 0..(n - l)} : l \in PAT_MINLEN..PAT_MAXLEN}
        count(pt) == Cardinality({i \in 0..(n - Len(pt)) : sub(Len(pt), i) = pt})
        first(pt) == CHOOSE i \in 0..(n - Len(pt)) :
                        /\ sub(Len(pt), i) = pt
                        /\ \A j \in 0..(i - 1) : sub(Len(pt), j) # pt
        Before(a, b) ==
            \/ count(a) > count(b)
            \/ /\ count(a) = count(b)
               /\ \/ Len(a) < Len(b)
                  \/ (Len(a) = Len(b) /\ first(a) < first(b))
        rank(pt) == Cardinality({q \in pats : Before(q, pt)})
    IN  [k \in 1..MinOf(topn, Cardinality(pats)) |-> CHOOSE pt \in pats : rank(pt) = k - 1]

\* The first table entry (1-based) matching data at offset i; 0 when none does.
MatchAt(data, i, table) ==
    LET hits == {k \in 1..Len(table) : Slice(data, i, i + Len(table[k])) = table[k]}
    IN  IF hits = {} THEN 0 ELSE CHOOSE k \in hits : \A m \in hits : k <= m

RECURSIVE SubstLoop(_, _, _)
SubstLoop(data, i, table) ==
    IF i >= Len(data) THEN <<>>
    ELSE LET k == MatchAt(data, i, table)
         IN  IF k > 0
             THEN <<SUBST_BASE + k - 1>> \o SubstLoop(data, i + Len(table[k]), table)
             ELSE <<data[i + 1]>> \o SubstLoop(data, i + 1, table)

\* Returns [data, table].
pattern_encode(data) ==
    LET table == MostCommon(data, PAT_TOPN)
    IN  [data |-> SubstLoop(data, 0, table), table |-> table]

RECURSIVE pattern_decode(_, _)
pattern_decode(data, table) ==
    IF data = <<>> THEN <<>>
    ELSE (IF Head(data) >= SUBST_BASE /\ Head(data) < SUBST_BASE + Len(table)
          THEN table[Head(data) - SUBST_BASE + 1]
          ELSE <<Head(data)>>)
         \o pattern_decode(Tail(data), table)

(***************************************************************************)
(* HuffmanCompressor and ArithmeticCompressor (huffman.py, arithmetic.py). *)
(***************************************************************************)
HuffmanCompress(data) ==
    IF Len(data) = 0 THEN <<>>
    ELSE LET Framed(tree_bytes, compressed_data) ==
                 ToBE4(Len(tree_bytes)) \o tree_bytes \o compressed_data
             Result(e) == Framed(DumpTreeDict(e.tree_dict), e.data)
         IN  Result(huffman_encode(data))

HuffmanDecompress(data) ==
    IF Len(data) = 0 THEN Ok(<<>>)
    ELSE LET tree_size == FromBE(Slice(data, 0, 4))
             Decode(tree_dict) ==
                 huffman_decode(SliceFrom(data, MinOf(4 + tree_size, Len(data))), tree_dict)
         IN  Then(LoadTreeDict(Slice(data, 4, 4 + tree_size)), Decode)

ArithmeticCompress(data) ==
    IF Len(data) = 0 THEN <<>>
    ELSE LET Framed(model_bytes, compressed_data) ==
                 ToBE4(Len(model_bytes)) \o model_bytes \o compressed_data
             Result(e) == Framed(DumpModel(e.model), e.data)
         IN  Result(arithmetic_encode(data))

ArithmeticDecompress(data) ==
    IF Len(data) = 0 THEN Ok(<<>>)
    ELSE LET model_size == FromBE(Slice(data, 0, 4))
             Decode(model) ==
                 arithmetic_decode(SliceFrom(data, MinOf(4 + model_size, Len(data))), model)
         IN  Then(LoadModel(Slice(data, 4, 4 + model_size)), Decode)

(***************************************************************************)
(* The composite pipelines of compressor.py and decompressor.py.  The      *)
(* source's sizes 8*1024 and 1024*1024 are scaled down to BLOCK_8K and     *)
(* BWT_BLOCK_SIZE bytes, keeping BLOCK_8K < BWT_BLOCK_SIZE.                *)
(***************************************************************************)
BLOCK_8K == 4

BWT_BLOCK_SIZE == 6

\* The tail shared by the encoders: RLE, MTF, then the given entropy coder.
_bwt_rle_mtf_huffman_compress(data) ==
    IF Len(data) = 0 THEN <<>>
    ELSE IF Len(data) < BLOCK_8K THEN HuffmanCompress(data)
    ELSE HuffmanCompress(mtf_encode(rle_encode(bwt_encode_block(data, BLOCK_8K))))

_bwt_rle_mtf_arithmetic_compress(data) ==
    IF Len(data) = 0 THEN <<>>
    ELSE IF Len(data) < BWT_BLOCK_SIZE THEN ArithmeticCompress(data)
    ELSE ArithmeticCompress(mtf_encode(rle_encode(bwt_encode_block(data, BLOCK_8K))))

\* mtf_decode, rle_decode, bwt_decode_block applied to the entropy decoder's output.
UndoMtfRleBwt(mtf_data) ==
    Then(Then(Then(mtf_data, mtf_decode), rle_decode), bwt_decode_block)

\* On the bytes read after the length prefix.
_bwt_rle_mtf_huffman_decompress(compressed_data) ==
    UndoMtfRleBwt(HuffmanDecompress(compressed_data))

_bwt_rle_mtf_arithmetic_decompress(compressed_data) ==
    UndoMtfRleBwt(ArithmeticDecompress(compressed_data))

\* RLE, MTF and PPM of one BWT block record: [info, bytes].
PpmBlock(block_data, order) ==
    LET Record(mtf_data) ==
            LET Info(e) ==
                    [info |-> [data_len |-> Len(e.data), model_info |-> e.model_info,
                               ppm_model |-> e.ppm_model, mtf_len |-> Len(mtf_data)],
                     bytes |-> e.data]
            IN  Info(ppm_encode(mtf_data, order))
    IN  Record(mtf_encode(rle_encode(block_data)))

\* The block records of a multi-block bwt_block, from offset pos, k to go; the
\* loop breaks on a record that does not fit.
RECURSIVE SplitBwtBlocks(_, _, _)
SplitBwtBlocks(bwt_block, pos, k) ==
    IF k = 0 \/ pos + 4 > Len(bwt_block) THEN <<>>
    ELSE LET block_size_bytes == FromBE(Slice(bwt_block, pos, pos + 4))
         IN  IF pos + 4 + block_size_bytes > Len(bwt_block) THEN <<>>
             ELSE <<Slice(bwt_block, pos + 4, pos + 4 + block_size_bytes)>>
                  \o SplitBwtBlocks(bwt_block, pos + 4 + block_size_bytes, k - 1)

_bwt_rle_mtf_ppm_compress(data, order) ==
    LET Framed(meta_bytes, compressed_datas) ==
            ToBE4(Len(meta_bytes)) \o meta_bytes \o Concat(compressed_datas)
        Packed(num_blocks, blocks) ==
            Framed(DumpMeta([num_blocks |-> num_blocks,
                             block_infos |-> [k \in 1..Len(blocks) |-> blocks[k].info]]),
                   [k \in 1..Len(blocks) |-> blocks[k].bytes])
        Blocks(records) == [k \in 1..Len(records) |-> PpmBlock(records[k], order)]
        Encoded(bwt_block) ==
            Packed(IF Len(data) <= BLOCK_8K THEN 1 ELSE FromBE(Slice(bwt_block, 0, 4)),
                   Blocks(IF Len(data) <= BLOCK_8K THEN <<bwt_block>>
                          ELSE SplitBwtBlocks(bwt_block, 4,
                                              FromBE(Slice(bwt_block, 0, 4)))))
    IN  Encoded(bwt_encode_block(data, BLOCK_8K))

\* The per-block loop of the PPM decoder: the restored BWT block records.
RECURSIVE PpmRestoreBlocks(_, _, _)
PpmRestoreBlocks(infos, compressed_data, pos) ==
    IF infos = <<>> THEN Ok(<<>>)
    ELSE LET info == Head(infos)
             enc_bytes == Slice(compressed_data, pos, pos + info.data_len)
             Restored(bwt_block_data) ==
                 LET Prepend(rest) == Ok(<<bwt_block_data>> \o rest)
                 IN  Then(PpmRestoreBlocks(Tail(infos), compressed_data,
                                           pos + info.data_len),
                          Prepend)
         IN  Then(Then(Then(ppm_decode_to_list(enc_bytes, info.model_info, info.ppm_model),
                            mtf_decode_to_list),
                       rle_decode),
                  Restored)

_bwt_rle_mtf_ppm_decompress_from_bytes(data, original_size) ==
    LET meta_len == FromBE(Slice(data, 0, 4))
        Cut(original) == Ok(Slice(original, 0, original_size))
        Rebuilt(meta) ==
            LET Decoded(restored_blocks) ==
                    IF meta.num_blocks = 1 /\ restored_blocks = <<>> THEN Err
                    ELSE Then(bwt_decode_block(
                                  IF meta.num_blocks = 1 THEN restored_blocks[1]
                                  ELSE ToBE4(meta.num_blocks)
                                       \o Concat([k \in 1..Len(restored_blocks) |->
                                                    ToBE4(Len(restored_blocks[k]))
                                                    \o restored_blocks[k]])),
                              Cut)
            IN  Then(PpmRestoreBlocks(meta.block_infos,
                                      SliceFrom(data, MinOf(4 + meta_len, Len(data))), 0),
                     Decoded)
    IN  Then(LoadMeta(Slice(data, 4, 4 + meta_len)), Rebuilt)

(***************************************************************************)
(* The container constants of compressor.py.                               *)
(***************************************************************************)
MAGIC == <<83, 79, 82, 50>>

MAGIC_V1 == <<83, 79, 82, 49>>

VERSION == 2

METHOD_STORE == 0

METHOD_HUFFMAN == 1

METHOD_BWT_RLE_MTF_HUFFMAN == 2

METHOD_BWT_RLE_MTF_ARITHMETIC == 3

METHOD_LZMA == 4

METHOD_BWT_LZMA == 5

METHOD_PATTERN_LZMA == 6

METHOD_DUP_REF == 7

METHOD_BWT_RLE_MTF_PPM == 8

FILE_TYPE_COMPRESSED == 0

FILE_TYPE_TEXT == 1

FILE_TYPE_BINARY == 2

FILE_TYPE_UNKNOWN == 3

(***************************************************************************)
(* Method selection of compress_to_sor: the trial encodings, the minimum,  *)
(* the STORE floor and the method code.  A candidate is [name, data].      *)
(***************************************************************************)
Cand(name, data) == [name |-> name, data |-> data]

\* The four candidates every file type gets.
StoreAndLzma(data) ==
    << Cand("STORE", data),
       Cand("LZMA(preset=3)", LzmaCompress(data, 3)),
       Cand("LZMA(preset=6)", LzmaCompress(data, 6)),
       Cand("LZMA(preset=9)", LzmaCompress(data, 9)) >>

\* PATTERN_LZMA: table length, pickled table, LZMA length, LZMA data.
PatternLzmaFull(data) ==
    LET p == pattern_encode(data)
        pat_lzma == LzmaCompress(p.data, 9)
        table_bytes == DumpTable(p.table)
    IN  ToLE4(Len(table_bytes)) \o table_bytes \o ToLE4(Len(pat_lzma)) \o pat_lzma

TextOnly(data) ==
    << Cand("BWT_RLE_MTF_PPM(order=0)", _bwt_rle_mtf_ppm_compress(data, 0)),
       Cand("BWT_RLE_MTF_PPM(order=1)", _bwt_rle_mtf_ppm_compress(data, 1)),
       Cand("BWT_RLE_MTF_PPM(order=2)", _bwt_rle_mtf_ppm_compress(data, 2)),
       Cand("BWT_RLE_MTF_PPM(order=3)", _bwt_rle_mtf_ppm_compress(data, 3)),
       Cand("BWT_RLE_MTF_HUFFMAN", _bwt_rle_mtf_huffman_compress(data)),
       Cand("BWT_RLE_MTF_ARITHMETIC", _bwt_rle_mtf_arithmetic_compress(data)),
       Cand("BWT_LZMA", bwt_lzma_compress(data, LZMA_BWT_BLOCK_SIZE, 9)),
       Cand("PATTERN_LZMA", PatternLzmaFull(data)),
       Cand("HUFFMAN", HuffmanCompress(data)) >>

Candidates(file_type, data) ==
    IF file_type = FILE_TYPE_TEXT THEN StoreAndLzma(data) \o TextOnly(data)
    ELSE StoreAndLzma(data)

\* A scan that keeps the last of the shortest candidates.
RECURSIVE MinScan_last(_, _, _)
MinScan_last(candidates, k, best) ==
    IF k > Len(candidates) THEN candidates[best]
    ELSE MinScan_last(candidates, k + 1,
                      IF Len(candidates[k].data) <= Len(candidates[best].data)
                      THEN k ELSE best)

\* min(candidates, key=len) scans the list and keeps the first of the shortest.
RECURSIVE MinScan(_, _, _)
MinScan(candidates, k, best) ==
    IF k > Len(candidates) THEN candidates[best]
    ELSE MinScan(candidates, k + 1,
                 IF Len(candidates[k].data) < Len(candidates[best].data) THEN k ELSE best)

MinCandidate(candidates) == MinScan(candidates, 2, 1)

\* A selection that takes the last candidate whatever its length.
SelectMethod_last(candidates, data) == candidates[Len(candidates)]

\* The minimum, replaced by STORE when it does not beat the original.
SelectMethod(candidates, data) ==
    LET best == MinCandidate(candidates)
    IN  IF Len(best.data) >= Len(data) THEN Cand("STORE", data) ELSE best

method_code_map(method) ==
    CASE method = "STORE" -> METHOD_STORE
      [] method \in {"LZMA(preset=3)", "LZMA(preset=6)", "LZMA(preset=9)"} -> METHOD_LZMA
      [] method \in {"BWT_RLE_MTF_PPM(order=0)", "BWT_RLE_MTF_PPM(order=1)",
                     "BWT_RLE_MTF_PPM(order=2)", "BWT_RLE_MTF_PPM(order=3)"}
            -> METHOD_BWT_RLE_MTF_PPM
      [] method = "BWT_RLE_MTF_HUFFMAN" -> METHOD_BWT_RLE_MTF_HUFFMAN
      [] method = "BWT_RLE_MTF_ARITHMETIC" -> METHOD_BWT_RLE_MTF_ARITHMETIC
      [] method = "BWT_LZMA" -> METHOD_BWT_LZMA
      [] method = "PATTERN_LZMA" -> METHOD_PATTERN_LZMA
      [] method = "HUFFMAN" -> METHOD_HUFFMAN
      [] method = "ARITHMETIC" -> METHOD_BWT_RLE_MTF_ARITHMETIC
      [] OTHER -> METHOD_STORE

(***************************************************************************)
(* decompressor.py: sanitize_filename, decompress_file and the body of the *)
(* entry loop of decompress_from_sor.  The archive file f is a sequence of *)
(* bytes read at a 0-based offset pos.                                     *)
(***************************************************************************)
\* name.split(sep)
RECURSIVE SplitOn(_, _)
SplitOn(str, sep) ==
    IF \A i \in 1..Len(str) : str[i] # sep THEN <<str>>
    ELSE LET i == CHOOSE i \in 1..Len(str) :
                      str[i] = sep /\ \A j \in 1..(i - 1) : str[j] # sep
         IN  <<SubSeq(str, 1, i - 1)>> \o SplitOn(SubSeq(str, i + 1, Len(str)), sep)

\* : * ? " < > | \ and the control characters
ForbiddenChars == {58, 42, 63, 34, 60, 62, 124, 92} \cup (0..31)

\* A strip that leaves the part as it is.
StripSpaceDot_none(part) == part

\* part.strip(' .')
StripSpaceDot(part) ==
    LET keep == {i \in 1..Len(part) : part[i] \notin {32, 46}}
    IN  IF keep = {} THEN <<>>
        ELSE SubSeq(part, CHOOSE i \in keep : \A j \in keep : i <= j,
                          CHOOSE i \in keep : \A j \in keep : i >= j)

\* os.path.join of parts none of which starts with a slash.
RECURSIVE PathJoin(_, _)
PathJoin(path, parts) ==
    IF parts = <<>> THEN path
    ELSE PathJoin(IF path = <<>> \/ path[Len(path)] = 47 THEN path \o Head(parts)
                  ELSE path \o <<47>> \o Head(parts),
                  Tail(parts))

sanitize_filename(name) ==
    LET parts == SplitOn(name, 47)
        safe(part) == StripSpaceDot([i \in 1..Len(part) |->
                                       IF part[i] \in ForbiddenChars THEN 95 ELSE part[i]])
        safe_parts == [k \in 1..Len(parts) |-> safe(parts[k])]
    IN  PathJoin(Head(safe_parts), Tail(safe_parts))

\* filename_bytes.decode('utf-8') succeeds; names outside ASCII are not modelled
\* other than by bytes that no UTF-8 text contains.
Utf8Ok(filename_bytes) == \A i \in 1..Len(filename_bytes) : filename_bytes[i] < 128

\* f.read(n) at pos: what is left of the file, at most n bytes.
ReadAt(f, pos, n) == Slice(f, pos, pos + n)

\* The end of that read.
PosAfter(f, pos, n) == MinOf(pos + n, MaxOf(pos, Len(f)))

\* The result of a read-and-decode: [ok, val, pos].
Res(ok, val, pos) == [ok |-> ok, val |-> val, pos |-> pos]

\* A sized read that leaves the position on the last four bytes of the block.
ReadSized_short(f, pos) ==
    IF Len(ReadAt(f, pos, 4)) < 4 THEN Res(FALSE, <<>>, PosAfter(f, pos, 4))
    ELSE LET compressed_size == FromLE(ReadAt(f, pos, 4))
         IN  Res(TRUE, ReadAt(f, pos + 4, compressed_size),
                 PosAfter(f, pos, compressed_size))

\* struct.unpack('<I', f.read(4)) followed by f.read(that many): [ok, val, pos];
\* struct.error when fewer than four bytes are left.
ReadSized(f, pos) ==
    IF Len(ReadAt(f, pos, 4)) < 4 THEN Res(FALSE, <<>>, PosAfter(f, pos, 4))
    ELSE LET compressed_size == FromLE(ReadAt(f, pos, 4))
         IN  Res(TRUE, ReadAt(f, pos + 4, compressed_size),
                 PosAfter(f, pos + 4, compressed_size))

\* A lookup that answers with no bytes where the real one raises.
DupRefLookup_lenient(decompressed_files, ref_index) ==
    IF \E e \in decompressed_files : e[1] = ref_index
    THEN Ok((CHOOSE e \in decompressed_files : e[1] = ref_index)[2])
    ELSE Ok(<<>>)

\* The DUP_REF branch of decompress_file: the bytes kept under ref_index, or
\* ValueError.  decompressed_files is a set of <<index, bytes>> pairs.
DupRefLookup(decompressed_files, ref_index) ==
    IF \E e \in decompressed_files : e[1] = ref_index
    THEN Ok((CHOOSE e \in decompressed_files : e[1] = ref_index)[2])
    ELSE Err

\* The PATTERN_LZMA branch of decompress_file.
ReadPatternLzma(f, pos, original_size) ==
    LET Cut(original) == Ok(Slice(original, 0, original_size))
        At(out, p) == Res(out.ok, out.val, p)
        WithTable(table_bytes, subst_table) ==
            LET Decode(pat_data) == pattern_decode(pat_data, subst_table.val)
                WithData(lzma_data) ==
                    At(Then(Then(Then(lzma_data, LzmaDecompress), Decode), Cut),
                       lzma_data.pos)
            IN  WithData(IF subst_table.ok THEN ReadSized(f, table_bytes.pos)
                         ELSE Res(FALSE, <<>>, table_bytes.pos))
        WithTableBytes(table_bytes) ==
            WithTable(table_bytes, Then(table_bytes, LoadTable))
    IN  WithTableBytes(ReadSized(f, pos))

\* [ok, val, pos]: the bytes returned, or an exception, and the offset reached.
decompress_file(f, pos, method_code, original_size, decompressed_files) ==
    IF method_code = METHOD_DUP_REF
    THEN IF Len(ReadAt(f, pos, 4)) < 4 THEN Res(FALSE, <<>>, PosAfter(f, pos, 4))
         ELSE LET At(out, p) == Res(out.ok, out.val, p)
              IN  At(DupRefLookup(decompressed_files, FromLE(ReadAt(f, pos, 4))), pos + 4)
    ELSE IF method_code = METHOD_PATTERN_LZMA
    THEN ReadPatternLzma(f, pos, original_size)
    ELSE IF method_code \notin {METHOD_STORE, METHOD_HUFFMAN, METHOD_BWT_RLE_MTF_HUFFMAN,
                                METHOD_BWT_RLE_MTF_ARITHMETIC, METHOD_LZMA,
                                METHOD_BWT_LZMA, METHOD_BWT_RLE_MTF_PPM}
    THEN Res(FALSE, <<>>, pos)
    ELSE LET At(out, p) == Res(out.ok, out.val, p)
             Decoded(compressed_data) ==
                 CASE method_code = METHOD_STORE -> Ok(compressed_data)
                   [] method_code = METHOD_HUFFMAN -> HuffmanDecompress(compressed_data)
                   [] method_code = METHOD_BWT_RLE_MTF_HUFFMAN ->
                        _bwt_rle_mtf_huffman_decompress(compressed_data)
                   [] method_code = METHOD_BWT_RLE_MTF_ARITHMETIC ->
                        _bwt_rle_mtf_arithmetic_decompress(compressed_data)
                   [] method_code = METHOD_LZMA -> LzmaDecompress(compressed_data)
                   [] method_code = METHOD_BWT_LZMA -> bwt_lzma_decompress(compressed_data)
                   [] method_code = METHOD_BWT_RLE_MTF_PPM ->
                        _bwt_rle_mtf_ppm_decompress_from_bytes(compressed_data,
                                                               original_size)
             Payload(read) == At(Then(read, Decoded), read.pos)
         IN  Payload(ReadSized(f, pos))

(***************************************************************************)
(* compressor.py: the body of the file loop of compress_to_sor.            *)
(***************************************************************************)
\* hashlib.sha256(data).digest(): a digest without collisions, the content itself.
sha256(data) == data

\* A membership test that finds no hash.
HashHas_never(hash_map, file_hash) == FALSE

\* hash_map is a set of <<hash, value>> pairs, one per key.
HashHas(hash_map, file_hash) == \E e \in hash_map : e[1] = file_hash

HashGet(hash_map, file_hash) == (CHOOSE e \in hash_map : e[1] = file_hash)[2]

\* What an iteration leaves behind: the bytes appended to the archive, the hash
\* map, and a record of the entry (ok = FALSE when the iteration raised).
NoStat ==
    [ok |-> FALSE, name |-> <<>>, data |-> <<>>, ftype |-> -1, method |-> "",
     method_code |-> -1, ref_index |-> -1, payload_len |-> -1, original_size |-> -1,
     cands |-> <<>>]

\* One iteration for file = [name, ftype, data, readable]; ftype is the answer of
\* detect_file_type, readable = FALSE makes the read of the file raise.
compress_entry(file, hash_map) ==
    LET name_bytes == ToLE2(Len(file.name)) \o file.name
        data == file.data
        file_hash == sha256(data)
        dup == HashHas(hash_map, file_hash)
        new_map == IF dup THEN hash_map
                   ELSE hash_map \cup {<<file_hash, Cardinality(hash_map)>>}
        ref_index == IF dup THEN HashGet(new_map, file_hash) ELSE -1
        Written(candidates, selected) ==
            LET method_code == IF dup THEN METHOD_DUP_REF
                               ELSE method_code_map(selected.name)
                compressed_data == IF dup THEN <<>> ELSE selected.data
            IN  [bytes |-> name_bytes \o <<file.ftype, method_code>> \o ToLE4(Len(data))
                           \o (IF dup THEN ToLE4(ref_index)
                               ELSE ToLE4(Len(compressed_data)) \o compressed_data),
                 hash_map |-> new_map,
                 stat |-> [ok |-> TRUE, name |-> file.name, data |-> data,
                           ftype |-> file.ftype, method |-> selected.name,
                           method_code |-> method_code, ref_index |-> ref_index,
                           payload_len |-> IF dup THEN -1 ELSE Len(compressed_data),
                           original_size |-> Len(data),
                           cands |-> [k \in 1..Len(candidates) |->
                                        [name |-> candidates[k].name,
                                         len |-> Len(candidates[k].data)]]]]
        Selected(candidates) == Written(candidates, SelectMethod(candidates, data))
    IN  IF ~file.readable
        THEN [bytes |-> name_bytes, hash_map |-> hash_map, stat |-> NoStat]
        ELSE Selected(Candidates(file.ftype, data))

(***************************************************************************)
(* decompressor.py: the body of the entry loop of decompress_from_sor.     *)
(***************************************************************************)
\* open(out_path, 'wb') raises when the sanitized name is empty or names a directory.
WriteFails(filename) == filename = <<>> \/ filename[Len(filename)] = 47

\* The record of an iteration that raised or skipped its entry; decoded tells
\* whether decompress_file had returned, data what it had returned.  The
\* file_stat of such an entry has 'original_size': None and 'restored': False.
FailedEntry(i, method, ref, decoded, data) ==
    [i |-> i, ok |-> FALSE, name |-> <<>>, method |-> method, ref |-> ref,
     decoded |-> decoded, data |-> data, original_size |-> -1, restored |-> FALSE]

\* One iteration at offset pos: [pos, decompressed_files, entry].
decompress_entry(f, pos, i, is_v2, decompressed_files) ==
    LET name_len == FromLE(ReadAt(f, pos, 2))
        filename_bytes == ReadAt(f, pos + 2, name_len)
        p1 == PosAfter(f, pos + 2, name_len)
        head == ReadAt(f, p1, 6)
        method_code == IF is_v2 THEN head[2] ELSE head[6]
        original_size == IF is_v2 THEN FromLE(SubSeq(head, 3, 6))
                         ELSE FromLE(SubSeq(head, 2, 5))
        ref == IF method_code = METHOD_DUP_REF /\ Len(ReadAt(f, p1 + 6, 4)) = 4
               THEN FromLE(ReadAt(f, p1 + 6, 4)) ELSE -1
        filename == sanitize_filename(filename_bytes)
        Decompressed(res) ==
            LET kept == {e \in decompressed_files : e[1] # i} \cup {<<i, res.val>>}
            IN  IF ~res.ok
                THEN [pos |-> res.pos, decompressed_files |-> decompressed_files,
                      entry |-> FailedEntry(i, method_code, ref, FALSE, <<>>)]
                ELSE IF WriteFails(filename)
                THEN [pos |-> res.pos, decompressed_files |-> kept,
                      entry |-> FailedEntry(i, method_code, ref, TRUE, res.val)]
                ELSE [pos |-> res.pos, decompressed_files |-> kept,
                      entry |-> [i |-> i, ok |-> TRUE, name |-> filename,
                                 method |-> method_code, ref |-> ref, decoded |-> TRUE,
                                 data |-> res.val, original_size |-> original_size,
                                 restored |-> original_size = Len(res.val)]]
    IN  IF Len(ReadAt(f, pos, 2)) < 2
        THEN [pos |-> PosAfter(f, pos, 2), decompressed_files |-> decompressed_files,
              entry |-> FailedEntry(i, -1, -1, FALSE, <<>>)]
        ELSE IF ~Utf8Ok(filename_bytes)
        THEN [pos |-> p1, decompressed_files |-> decompressed_files,
              entry |-> FailedEntry(i, -1, -1, FALSE, <<>>)]
        ELSE IF Len(head) < 6
        THEN [pos |-> PosAfter(f, p1, 6), decompressed_files |-> decompressed_files,
              entry |-> FailedEntry(i, -1, -1, FALSE, <<>>)]
        ELSE Decompressed(decompress_file(f, p1 + 6, method_code, original_size,
                                          decompressed_files))

(***************************************************************************)
(* The state: one SORCompressor, one SORDecompressor, the archive file     *)
(* between them, and the inputs and outcomes of the calls made on them.    *)
(***************************************************************************)
VARIABLES
    hash_map,            \* SORCompressor.hash_map
    sor,                 \* the archive file compress_to_sor writes
    w,                   \* the compress_to_sor call: [active, count, i, fresh, used]
    w_files,             \* the files the call has gone through, in order
    written,             \* the entries the call has written, in order
    decompressed_files,  \* SORDecompressor.decompressed_files
    r,                   \* the decompress_from_sor call:
                         \*   [active, f, pos, i, count, is_v2, version, fresh, calls,
                         \*    raised]
    r_log,               \* the outcome of each entry of the call, in order
    sel,                 \* one file through the loop body: [file, dup, done, stat]
    codec                \* one input through a codec pair: [s, op, out]

vars == <<hash_map, sor, w, w_files, written, decompressed_files, r, r_log, sel, codec>>

archive_vars == <<hash_map, sor, w, w_files, written, decompressed_files, r, r_log>>

\* At most MaxFiles files go through one SORCompressor.
MaxFiles == 4

\* At most MaxReads calls of decompress_from_sor are made on one SORDecompressor.
MaxReads == 2

\* The files offered to compress_to_sor: a short text and a long run that the LZ
\* coder shortens.
Files ==
    { [name |-> <<97>>, ftype |-> FILE_TYPE_TEXT, data |-> <<97, 98>>, readable |-> TRUE],
      [name |-> <<98>>, ftype |-> FILE_TYPE_BINARY, data |-> Repeat(98, 17),
       readable |-> TRUE] }

\* The bytes of an archive entry.
EntryBytes(name, ftype, method_code, original_size, body) ==
    ToLE2(Len(name)) \o name \o <<ftype, method_code>> \o ToLE4(original_size) \o body

\* A well-formed STORE entry: the file "b" of one byte.
GoodEntry == EntryBytes(<<98>>, FILE_TYPE_TEXT, METHOD_STORE, 1, ToLE4(1) \o <<121>>)

\* Entries whose decoding raises: a method code past the last one, with a
\* payload framed as every payload is; an LZMA payload that is no LZMA stream;
\* a DUP_REF to an index no call reaches.
FailingEntries ==
    { EntryBytes(<<97>>, FILE_TYPE_TEXT, METHOD_BWT_RLE_MTF_PPM + 1, 1, ToLE4(1) \o <<120>>),
      EntryBytes(<<97>>, FILE_TYPE_TEXT, METHOD_LZMA, 1, ToLE4(1) \o <<120>>),
      EntryBytes(<<97>>, FILE_TYPE_TEXT, METHOD_DUP_REF, 1, ToLE4(MaxFiles + 5)) }

\* Archives of two entries: one that fails, then the well-formed one.
FailThenGood == {MAGIC \o ToLE4(VERSION) \o ToLE4(2) \o e \o GoodEntry : e \in FailingEntries}

\* A STORE entry that records two bytes and holds one.
SizeMismatchArchive ==
    MAGIC \o ToLE4(VERSION) \o ToLE4(1)
      \o EntryBytes(<<97>>, FILE_TYPE_TEXT, METHOD_STORE, 2, ToLE4(1) \o <<120>>)

\* A STORE entry whose payload_len asks for three bytes where the file has one.
TruncatedArchive ==
    MAGIC \o ToLE4(VERSION) \o ToLE4(1)
      \o EntryBytes(<<97>>, FILE_TYPE_TEXT, METHOD_STORE, 3, ToLE4(3) \o <<120>>)

\* The well-formed entry under a version that is not VERSION.
VersionArchive == MAGIC \o ToLE4(VERSION + 1) \o ToLE4(1) \o GoodEntry

\* The well-formed entry under the magic "SOR3".
BadMagicArchive == <<83, 79, 82, 51>> \o ToLE4(VERSION) \o ToLE4(1) \o GoodEntry

\* Archives not made by compress_to_sor.  In the first, entry 0 is a DUP_REF
\* to a later entry and entry 2 a DUP_REF to an earlier one; in the second,
\* entry 0 has a payload that does not decode, entry 1 refers to it and entry 2
\* refers to itself; in the third, entry 0 decodes but has a directory's name,
\* and entry 1 refers to it.
ForeignArchives ==
    { MAGIC \o ToLE4(VERSION) \o ToLE4(3)
        \o EntryBytes(<<97>>, FILE_TYPE_TEXT, METHOD_DUP_REF, 1, ToLE4(1))
        \o EntryBytes(<<98>>, FILE_TYPE_TEXT, METHOD_STORE, 1, ToLE4(1) \o <<120>>)
        \o EntryBytes(<<99>>, FILE_TYPE_TEXT, METHOD_DUP_REF, 1, ToLE4(1)),
      MAGIC \o ToLE4(VERSION) \o ToLE4(3)
        \o EntryBytes(<<97>>, FILE_TYPE_TEXT, METHOD_LZMA, 1, ToLE4(1) \o <<120>>)
        \o EntryBytes(<<98>>, FILE_TYPE_TEXT, METHOD_DUP_REF, 1, ToLE4(0))
        \o EntryBytes(<<99>>, FILE_TYPE_TEXT, METHOD_DUP_REF, 1, ToLE4(2)),
      MAGIC \o ToLE4(VERSION) \o ToLE4(2)
        \o EntryBytes(<<100, 47>>, FILE_TYPE_TEXT, METHOD_STORE, 1, ToLE4(1) \o <<120>>)
        \o EntryBytes(<<98>>, FILE_TYPE_TEXT, METHOD_DUP_REF, 1, ToLE4(0)) }
    \cup FailThenGood
    \cup {SizeMismatchArchive, TruncatedArchive, VersionArchive, BadMagicArchive}

NoSel == [file |-> [name |-> <<>>, ftype |-> -1, data |-> <<>>, readable |-> FALSE],
          dup |-> FALSE, done |-> FALSE, stat |-> NoStat]

NoCodec == [s |-> <<>>, op |-> "none", out |-> Err]

\* The state after SORCompressor() and SORDecompressor().
InitArchive ==
    /\ hash_map = {}
    /\ sor = <<>>
    /\ w = [active |-> FALSE, count |-> 0, i |-> 0, fresh |-> TRUE, used |-> 0]
    /\ w_files = <<>>
    /\ written = <<>>
    /\ decompressed_files = {}
    /\ r = [active |-> FALSE, f |-> <<>>, pos |-> 0, i |-> 0, count |-> 0,
            is_v2 |-> TRUE, version |-> -1, fresh |-> TRUE, calls |-> 0,
            raised |-> FALSE]
    /\ r_log = <<>>

Init == InitArchive /\ sel = NoSel /\ codec = NoCodec

\* compress_to_sor up to the file loop: the header is written for n paths.
StartCompress(n) ==
    /\ ~w.active /\ ~r.active
    /\ n \in 0..(MaxFiles - w.used)
    /\ sor' = MAGIC \o ToLE4(VERSION) \o ToLE4(n)
    /\ w' = [active |-> n > 0, count |-> n, i |-> 0, fresh |-> w.used = 0 /\ hash_map = {},
             used |-> w.used]
    /\ w_files' = <<>>
    /\ written' = <<>>
    /\ UNCHANGED <<hash_map, decompressed_files, r, r_log, sel, codec>>

\* One iteration of the file loop of compress_to_sor.
CompressStep(file) ==
    /\ w.active
    /\ \E e \in {compress_entry(file, hash_map)} :
           /\ sor' = sor \o e.bytes
           /\ hash_map' = e.hash_map
           /\ written' = IF e.stat.ok THEN Append(written, e.stat) ELSE written
    /\ w_files' = Append(w_files, file)
    /\ w' = [w EXCEPT !.i = w.i + 1, !.used = w.used + 1, !.active = w.i + 1 < w.count]
    /\ UNCHANGED <<decompressed_files, r, r_log, sel, codec>>

\* A header read that takes every unknown magic for the legacy one.
ReadHeader_anymagic(f) ==
    LET is_v2 == ReadAt(f, 0, 4) = MAGIC
        need == IF is_v2 THEN 12 ELSE 8
        raised == Len(f) < need
    IN  [raised |-> raised, is_v2 |-> is_v2,
         version |-> IF is_v2 /\ Len(f) >= 8 THEN FromLE(ReadAt(f, 4, 4)) ELSE -1,
         file_count |-> IF raised THEN 0 ELSE FromLE(ReadAt(f, need - 4, 4)),
         pos |-> IF raised THEN 0 ELSE need]

\* The header read of decompress_from_sor: [raised, is_v2, version, file_count,
\* pos].  An unknown magic raises ValueError and a header cut short raises
\* struct.error, both outside the try of the entry loop; the version is read
\* and not looked at.
ReadHeader(f) ==
    LET magic == ReadAt(f, 0, 4)
        is_v2 == magic = MAGIC
        need == IF is_v2 THEN 12 ELSE 8
        raised == magic \notin {MAGIC, MAGIC_V1} \/ Len(f) < need
    IN  [raised |-> raised, is_v2 |-> is_v2,
         version |-> IF is_v2 /\ Len(f) >= 8 THEN FromLE(ReadAt(f, 4, 4)) ELSE -1,
         file_count |-> IF raised THEN 0 ELSE FromLE(ReadAt(f, need - 4, 4)),
         pos |-> IF raised THEN 0 ELSE need]

\* decompress_from_sor up to the entry loop, on the archive last written or on
\* a foreign one: the magic, the version and the file count are read.
StartDecompress(f) ==
    /\ ~w.active /\ ~r.active
    /\ r.calls < MaxReads
    /\ \E h \in {ReadHeader(f)} :
           r' = [active |-> ~h.raised /\ h.file_count > 0, f |-> f,
                 pos |-> h.pos, i |-> 0, count |-> h.file_count, is_v2 |-> h.is_v2,
                 version |-> h.version,
                 fresh |-> r.calls = 0, calls |-> r.calls + 1, raised |-> h.raised]
    /\ r_log' = <<>>
    /\ UNCHANGED <<hash_map, sor, w, w_files, written, decompressed_files, sel, codec>>

\* One iteration of the entry loop of decompress_from_sor.
DecompressStep ==
    /\ r.active
    /\ \E e \in {decompress_entry(r.f, r.pos, r.i, r.is_v2, decompressed_files)} :
           /\ decompressed_files' = e.decompressed_files
           /\ r_log' = Append(r_log, e.entry)
           /\ r' = [r EXCEPT !.pos = e.pos, !.i = r.i + 1, !.active = r.i + 1 < r.count]
    /\ UNCHANGED <<hash_map, sor, w, w_files, written, sel, codec>>

Next ==
    \/ \E n \in 0..MaxFiles : StartCompress(n)
    \/ \E file \in Files : CompressStep(file)
    \/ \E f \in {sor} \cup ForeignArchives : StartDecompress(f)
    \/ DecompressStep

Spec == Init /\ [][Next]_vars

(***************************************************************************)
(* The writer alone, on paths of which one names a file that cannot be     *)
(* opened.                                                                 *)
(***************************************************************************)
Unreadable ==
    [name |-> <<99>>, ftype |-> FILE_TYPE_UNKNOWN, data |-> <<>>, readable |-> FALSE]

NextWrite ==
    \/ \E n \in 0..MaxFiles : StartCompress(n)
    \/ \E file \in Files \cup {Unreadable} : CompressStep(file)

SpecWrite == Init /\ [][NextWrite]_vars

(***************************************************************************)
(* The loop body of compress_to_sor as a function of one file and of       *)
(* whether its hash is already in the hash map.                            *)
(***************************************************************************)
\* The longest of the short contents.
MaxSelLen == 3

\* Every byte string over the two letters up to a length.
BytesUpTo(n) == UNION {[1..k -> {97, 98}] : k \in 0..n}

\* Short contents, a long run, and a long alternation.
SelData ==
    BytesUpTo(MaxSelLen)
    \cup {Repeat(98, 17), <<97, 98, 97, 98, 97, 98, 97, 98, 97, 98, 97, 98, 97, 98, 97, 98>>}

SelFiles ==
    {[name |-> <<97>>, ftype |-> t, data |-> d, readable |-> TRUE] :
        t \in {FILE_TYPE_COMPRESSED, FILE_TYPE_TEXT, FILE_TYPE_BINARY, FILE_TYPE_UNKNOWN},
        d \in SelData}
    \cup {[name |-> <<97>>, ftype |-> FILE_TYPE_UNKNOWN, data |-> <<>>, readable |-> FALSE]}

InitSelect ==
    /\ InitArchive
    /\ codec = NoCodec
    /\ sel \in {[file |-> f, dup |-> d, done |-> FALSE, stat |-> NoStat] :
                  f \in SelFiles, d \in BOOLEAN}

\* The loop body on sel.file, with the hash of its content in the map or not.
SelectEntry ==
    /\ ~sel.done
    /\ sel' = [sel EXCEPT !.done = TRUE,
                          !.stat = compress_entry(
                                       sel.file,
                                       IF sel.dup THEN {<<sha256(sel.file.data), 0>>}
                                       ELSE {}).stat]
    /\ UNCHANGED <<archive_vars, codec>>

NextSelect == SelectEntry

SpecSelect == InitSelect /\ [][NextSelect]_vars

(***************************************************************************)
(* The composite codecs as functions of one input: the payload an encoder  *)
(* makes of s goes through the matching decoder.                           *)
(***************************************************************************)
\* The longest input.
MaxLen == 7

CodecInputs == BytesUpTo(MaxLen)

InitCodec ==
    /\ InitArchive
    /\ sel = NoSel
    /\ codec \in {[s |-> s, op |-> "none", out |-> Err] : s \in CodecInputs}

\* What decompress_file returns for a payload stored under method_code.
Dispatch(method_code, payload, original_size) ==
    LET Returned(res) == [ok |-> res.ok, val |-> res.val]
    IN  Returned(decompress_file(ToLE4(Len(payload)) \o payload, 0, method_code,
                                 original_size, {}))

RoundTrip(op, out) ==
    /\ codec.op = "none"
    /\ codec' = [codec EXCEPT !.op = op, !.out = out]
    /\ UNCHANGED <<archive_vars, sel>>

RoundTripHuffman ==
    /\ codec.op = "none"
    /\ \E payload \in {_bwt_rle_mtf_huffman_compress(codec.s)} :
           RoundTrip("BWT_RLE_MTF_HUFFMAN",
                     Dispatch(METHOD_BWT_RLE_MTF_HUFFMAN, payload, Len(codec.s)))

RoundTripArithmetic ==
    /\ codec.op = "none"
    /\ \E payload \in {_bwt_rle_mtf_arithmetic_compress(codec.s)} :
           RoundTrip("BWT_RLE_MTF_ARITHMETIC",
                     Dispatch(METHOD_BWT_RLE_MTF_ARITHMETIC, payload, Len(codec.s)))

RoundTripPpm ==
    /\ codec.op = "none"
    /\ \E payload \in {_bwt_rle_mtf_ppm_compress(codec.s, 0)} :
           RoundTrip("BWT_RLE_MTF_PPM",
                     _bwt_rle_mtf_ppm_decompress_from_bytes(payload, Len(codec.s)))

RoundTripBwtLzma ==
    /\ codec.op = "none"
    /\ \E payload \in {bwt_lzma_compress(codec.s, LZMA_BWT_BLOCK_SIZE, 9)} :
           RoundTrip("BWT_LZMA", bwt_lzma_decompress(payload))

\* A payload written with a PPM order above 0, as the trial encodings of
\* compress_to_sor make them, read back by decompress_file.
RoundTripPpmOrder(order) ==
    /\ codec.op = "none"
    /\ \E payload \in {_bwt_rle_mtf_ppm_compress(codec.s, order)} :
           RoundTrip(CASE order = 1 -> "BWT_RLE_MTF_PPM(order=1)"
                       [] order = 2 -> "BWT_RLE_MTF_PPM(order=2)"
                       [] order = 3 -> "BWT_RLE_MTF_PPM(order=3)",
                     Dispatch(METHOD_BWT_RLE_MTF_PPM, payload, Len(codec.s)))

NextCodec ==
    \/ RoundTripHuffman
    \/ RoundTripArithmetic
    \/ RoundTripPpm
    \/ RoundTripBwtLzma
    \/ \E order \in 1..3 : RoundTripPpmOrder(order)

SpecCodec == InitCodec /\ [][NextCodec]_vars

(***************************************************************************)
(* The single transforms as functions of one input: what an encoder makes  *)
(* of s goes through its own decoder, with nothing in between.             *)
(***************************************************************************)
\* The longest input over the three bytes.
MaxPrimLen == 5

\* The shortest run that does not fit one (value, count) pair.
MaxRun == 256

\* The most code bits cut off the end of a Huffman stream.
MaxCut == 2

\* The largest block_size given to bwt_encode_block.
MaxBlock == 3

\* Every byte string over two letters and the first substitution code up to
\* MaxPrimLen, and the word of the worked example.
PrimInputs ==
    UNION {[1..k -> {97, 98, SUBST_BASE}] : k \in 0..MaxPrimLen}
    \cup {<<98, 97, 110, 97, 110, 97>>}

InitPrimitive ==
    /\ InitArchive
    /\ sel = NoSel
    /\ codec \in {[s |-> s, op |-> "none", out |-> Err] : s \in PrimInputs}

\* pattern_decode(*pattern_encode(s))
RoundTripPattern ==
    LET Decoded(e) == Ok(pattern_decode(e.data, e.table))
    IN  RoundTrip("PATTERN", Decoded(pattern_encode(codec.s)))

\* bwt_decode(*bwt_encode(s)); the encoder's output is kept next to the result.
RoundTripBwt ==
    LET Decoded(e) ==
            LET Kept(d) == [ok |-> d.ok, val |-> d.val,
                            last_column |-> e[1], original_index |-> e[2]]
            IN  Kept(bwt_decode(e[1], e[2]))
    IN  RoundTrip("BWT", Decoded(bwt_encode(codec.s)))

\* arithmetic_decode(*arithmetic_encode(s)); the encoded bytes are kept next
\* to the result.
RoundTripArithmeticCoder ==
    LET Decoded(e) ==
            LET Kept(d) == [ok |-> d.ok, val |-> d.val, enc_bytes |-> e.data]
            IN  Kept(arithmetic_decode(e.data, e.model))
    IN  RoundTrip("ARITHMETIC", Decoded(arithmetic_encode(codec.s)))

\* huffman_decode(*huffman_encode(s)); the encoded bytes, the padding and the
\* code table are kept next to the result.  huffman_encode of an empty list
\* raises (build_code_table is handed None).
RoundTripHuffmanCoder ==
    LET Decoded(e, table) ==
            LET Kept(d) == [ok |-> d.ok, val |-> d.val, enc_bytes |-> e.data,
                            padding |-> e.tree_dict.padding, code_table |-> table]
            IN  Kept(huffman_decode(e.data, e.tree_dict))
    IN  RoundTrip("HUFFMAN",
                  IF codec.s = <<>>
                  THEN [ok |-> FALSE, val |-> <<>>, enc_bytes |-> <<>>, padding |-> 0,
                        code_table |-> {}]
                  ELSE Decoded(huffman_encode(codec.s),
                               build_code_table(build_huffman_tree(codec.s), <<>>)))

\* huffman_decode of the bytes of huffman_encode(s) under a tree_dict whose
\* padding is `cut` more than the encoder recorded, so that the code bits stop
\* `cut` bits early.  The code bits the decoder is left with and the code table
\* are kept next to the result.
DecodeCutHuffman(cut) ==
    /\ codec.op = "none"
    /\ codec.s # <<>>
    /\ LET Decoded(e, table) ==
               LET Kept(d) ==
                       [ok |-> d.ok, val |-> d.val, cut |-> cut, code_table |-> table,
                        kept |-> SubSeq(BitsOfBytes(e.data), 1,
                                        MaxOf(0, (8 * Len(e.data))
                                                   - (e.tree_dict.padding + cut)))]
               IN  Kept(huffman_decode(e.data, [tree |-> e.tree_dict.tree,
                                                 padding |-> e.tree_dict.padding + cut]))
       IN  RoundTrip("HUFFMAN_CUT",
                     Decoded(huffman_encode(codec.s),
                             build_code_table(build_huffman_tree(codec.s), <<>>)))

\* s with each of its bytes written n times over.
Stretch(s, n) == [k \in 1..(n * Len(s)) |-> s[((k - 1) \div n) + 1]]

\* The run lengths the inputs of the RLE coder are stretched to: single bytes,
\* the longest run one pair holds, and one more.
RunLens == {1, MaxRun - 1, MaxRun}

\* rle_decode(rle_encode(data)) for data = s stretched to runs of n; the input
\* and the encoder's output are kept next to the result.
RoundTripRle(n) ==
    /\ codec.op = "none"
    /\ \E data \in {Stretch(codec.s, n)} :
           \E enc \in {rle_encode(data)} :
               LET Kept(d) == [ok |-> d.ok, val |-> d.val, data |-> data, enc |-> enc]
               IN  RoundTrip("RLE", Kept(rle_decode(enc)))

\* rle_decode of an encoder's output that lost its last byte.
DecodeOddRle ==
    /\ codec.op = "none"
    /\ codec.s # <<>>
    /\ \E enc \in {rle_encode(codec.s)} :
           LET Kept(d) == [ok |-> d.ok, val |-> d.val, data |-> codec.s, enc |-> enc]
           IN  RoundTrip("RLE_ODD", Kept(rle_decode(SubSeq(enc, 1, Len(enc) - 1))))

\* mtf_decode(mtf_encode(s)); the indices and the symbol table of each side
\* after each of its steps are kept next to the result.
RoundTripMtf ==
    /\ codec.op = "none"
    /\ \E enc \in {mtf_encode(codec.s)} :
           LET start == [ok |-> TRUE, table |-> InitialSymbolTable, out |-> <<>>]
               EncTable(k) ==
                   ForRange(LAMBDA st, i : MtfEncodeStep(st, codec.s[i]), start, 1, k).table
               DecTable(k) ==
                   ForRange(LAMBDA st, i : MtfDecodeStep(st, enc[i]), start, 1, k).table
               Kept(d) == [ok |-> d.ok, val |-> d.val, enc |-> enc,
                           enc_tables |-> [k \in 1..Len(enc) |-> EncTable(k)],
                           dec_tables |-> [k \in 1..Len(enc) |-> DecTable(k)]]
           IN  RoundTrip("MTF", Kept(mtf_decode(enc)))

\* arithmetic_encode(s) and arithmetic_decode of its output, with the registers
\* of both after each symbol: enc[k] = [low, high, pending, bits] after the
\* renormalisation loop of symbol k, dec[k] = [ok, low, high, value, pos, out]
\* after pass k of the decoder.
TraceArithmeticCoder ==
    /\ codec.op = "none"
    /\ \E e \in {arithmetic_encode(codec.s)} :
           LET st0 == [low |-> 0, high |-> MASK, pending |-> 0, bits |-> <<>>]
               bits == BitsOfBytes(e.data)
               d0 == [ok |-> TRUE, low |-> 0, high |-> MASK,
                      value |-> InitialValue(bits, PRECISION), pos |-> PRECISION,
                      out |-> <<>>]
               Kept(d) == [ok |-> d.ok, val |-> d.val, total |-> e.model.total,
                           value0 |-> d0.value,
                           enc |-> [k \in 1..Len(codec.s) |->
                                      EncLoop(SubSeq(codec.s, 1, k), st0, e.model)],
                           dec |-> [k \in 1..Len(codec.s) |->
                                      ForRange(LAMBDA st, i : DecStep(st, bits, e.model),
                                               d0, 1, k)]]
           IN  RoundTrip("ARITHMETIC_TRACE", Kept(arithmetic_decode(e.data, e.model)))

\* HuffmanCompressor().decompress(HuffmanCompressor().compress(s)), with the code
\* table the encoder builds of s.
RoundTripHuffmanCompressor ==
    /\ codec.op = "none"
    /\ \E payload \in {HuffmanCompress(codec.s)} :
           LET Kept(d) == [ok |-> d.ok, val |-> d.val, payload |-> payload,
                           code_table |-> IF codec.s = <<>> THEN {}
                                          ELSE build_code_table(build_huffman_tree(codec.s),
                                                                <<>>)]
           IN  RoundTrip("HUFFMAN_COMPRESSOR", Kept(HuffmanDecompress(payload)))

\* bwt_decode_block(bwt_encode_block(s, block_size)).
RoundTripBwtBlock(block_size) ==
    /\ codec.op = "none"
    /\ \E enc \in {bwt_encode_block(codec.s, block_size)} :
           LET Kept(d) == [ok |-> d.ok, val |-> d.val, enc |-> enc,
                           block_size |-> block_size]
           IN  RoundTrip("BWT_BLOCK", Kept(bwt_decode_block(enc)))

NextPrimitive ==
    \/ RoundTripMtf
    \/ \E block_size \in 1..MaxBlock : RoundTripBwtBlock(block_size)
    \/ RoundTripHuffmanCompressor
    \/ TraceArithmeticCoder
    \/ \E n \in RunLens : RoundTripRle(n)
    \/ DecodeOddRle
    \/ RoundTripPattern
    \/ RoundTripBwt
    \/ RoundTripArithmeticCoder
    \/ RoundTripHuffmanCoder
    \/ \E cut \in 1..MaxCut : DecodeCutHuffman(cut)

SpecPrimitive == InitPrimitive /\ [][NextPrimitive]_vars

(***************************************************************************)
(* Entry names: sanitize_filename and the output path decompress_from_sor  *)
(* makes of its result, as functions of the name read from the archive.    *)
(***************************************************************************)
\* The longest entry name.
MaxNameLen == 4

\* '/', '.', ' ', ':', '\', a control character and a letter.
NameChars == {47, 46, 32, 58, 92, 1, 97}

\* Every name over NameChars up to MaxNameLen, and every ASCII character on its
\* own between two letters.
NameInputs ==
    UNION {[1..k -> NameChars] : k \in 0..MaxNameLen}
    \cup {<<97, c, 97>> : c \in 0..127}

\* The directory the archive is extracted to.
output_dir == <<111, 117, 116>>

\* os.path.join(a, b) on a POSIX host: an absolute b replaces a.
OsPathJoin(a, b) ==
    IF b # <<>> /\ b[1] = 47 THEN b
    ELSE IF a = <<>> \/ a[Len(a)] = 47 THEN a \o b
    ELSE a \o <<47>> \o b

InitName ==
    /\ InitArchive
    /\ sel = NoSel
    /\ codec \in {[s |-> s, op |-> "none", out |-> Err] : s \in NameInputs}

\* filename = sanitize_filename(name); out_path = os.path.join(output_dir,
\* filename); written tells whether open(out_path, 'wb') succeeds.
SanitizeName ==
    /\ codec.op = "none"
    /\ \E filename \in {sanitize_filename(codec.s)} :
           RoundTrip("SANITIZE",
                     [ok |-> TRUE, val |-> filename,
                      out_path |-> OsPathJoin(output_dir, filename),
                      written |-> ~WriteFails(filename)])

NextName == SanitizeName

SpecName == InitName /\ [][NextName]_vars

(***************************************************************************)
(* The entry framing: an archive of two or three entries is written the    *)
(* way compress_to_sor writes them, with each candidate payload in turn as *)
(* the one selected, and is read by the entry loop of decompress_from_sor. *)
(***************************************************************************)
FrameInputs == SelData

InitFrame ==
    /\ InitArchive
    /\ sel = NoSel
    /\ codec \in {[s |-> s, op |-> "none", out |-> Err] : s \in FrameInputs}

\* The archive header for n entries.
Header(n) == MAGIC \o ToLE4(VERSION) \o ToLE4(n)

\* A candidate of the text file codec.s is written as the first entry, a
\* well-formed entry follows, and both are read.
WriteReadFrame ==
    /\ codec.op = "none"
    /\ \E cands \in {Candidates(FILE_TYPE_TEXT, codec.s)} :
           \E k \in 1..Len(cands) :
               \E entry \in {EntryBytes(<<97>>, FILE_TYPE_TEXT, method_code_map(cands[k].name),
                                         Len(codec.s),
                                         ToLE4(Len(cands[k].data)) \o cands[k].data)} :
               \E e1 \in {decompress_entry(Header(2) \o entry \o GoodEntry, 12, 0, TRUE, {})} :
               \E e2 \in {decompress_entry(Header(2) \o entry \o GoodEntry, e1.pos, 1, TRUE,
                                            e1.decompressed_files)} :
                   RoundTrip("FRAME",
                             [ok |-> e1.entry.ok, val |-> e1.entry.data,
                              method |-> cands[k].name,
                              method_code |-> method_code_map(cands[k].name),
                              payload_len |-> Len(cands[k].data),
                              payload_at |-> 12 + 2 + 1 + 6,
                              pos |-> e1.pos, next |-> 12 + Len(entry),
                              second |-> e2.entry, end |-> e2.pos,
                              size |-> Len(Header(2) \o entry \o GoodEntry)])

\* The file codec.s is written twice by one compress_to_sor, so that the second
\* entry is a DUP_REF; a well-formed entry follows, and the three are read.
WriteReadDupFrame ==
    /\ codec.op = "none"
    /\ \E w1 \in {compress_entry([name |-> <<97>>, ftype |-> FILE_TYPE_TEXT,
                                   data |-> codec.s, readable |-> TRUE], {})} :
       \E w2 \in {compress_entry([name |-> <<99>>, ftype |-> FILE_TYPE_TEXT,
                                   data |-> codec.s, readable |-> TRUE], w1.hash_map)} :
       \E f \in {Header(3) \o w1.bytes \o w2.bytes \o GoodEntry} :
       \E e1 \in {decompress_entry(f, 12, 0, TRUE, {})} :
       \E e2 \in {decompress_entry(f, e1.pos, 1, TRUE, e1.decompressed_files)} :
       \E e3 \in {decompress_entry(f, e2.pos, 2, TRUE, e2.decompressed_files)} :
           RoundTrip("FRAME_DUP",
                     [ok |-> e2.entry.ok, val |-> e2.entry.data,
                      method |-> w1.stat.method,
                      method_code |-> w2.stat.method_code,
                      payload_len |-> w1.stat.payload_len,
                      payload_at |-> 12 + Len(w1.bytes) + 2 + 1 + 6,
                      pos |-> e2.pos, next |-> 12 + Len(w1.bytes) + Len(w2.bytes),
                      second |-> e3.entry, end |-> e3.pos, size |-> Len(f)])

NextFrame ==
    \/ WriteReadFrame
    \/ WriteReadDupFrame

SpecFrame == InitFrame /\ [][NextFrame]_vars

(***************************************************************************)
(* Properties.                                                             *)
(***************************************************************************)
\* The (name, bytes) pairs decompress_from_sor has written out, in order.
Extracted ==
    LET done == SelectSeq(r_log, LAMBDA e : e.ok)
    IN  [k \in 1..Len(done) |-> [name |-> done[k].name, data |-> done[k].data]]

\* The (name, bytes) pairs given to compress_to_sor, in order.
Supplied == [k \in 1..Len(w_files) |-> [name |-> w_files[k].name, data |-> w_files[k].data]]

\* The first call on a new SORCompressor has finished and its archive has gone
\* through the first call on a new SORDecompressor.
FreshRoundTripDone ==
    /\ ~w.active /\ w.fresh /\ Len(w_files) = w.count /\ sor # <<>>
    /\ ~r.active /\ r.fresh /\ r.calls = 1 /\ ~r.raised /\ r.f = sor

\* The position in written of the earliest entry with the content of entry q.
FirstWith(q) ==
    CHOOSE p \in 1..q : /\ written[p].data = written[q].data
                        /\ \A o \in 1..(p - 1) : written[o].data # written[q].data

\* C1: an archive written by a new SORCompressor and read by a new
\* SORDecompressor gives back exactly the written (name, bytes) pairs, in order,
\* also when several distinct contents each occur more than once.
C1_ArchiveRoundTrip == FreshRoundTripDone => Extracted = Supplied

\* C2: on write, the earliest entry with a content carries its payload, and
\* every later entry with that content is a DUP_REF whose ref_index is the
\* zero-based archive position of that earliest entry.
C2_DedupOnWrite ==
    w.fresh =>
        \A q \in 1..Len(written) :
            IF FirstWith(q) = q
            THEN written[q].method_code # METHOD_DUP_REF /\ written[q].payload_len >= 0
            ELSE /\ written[q].method_code = METHOD_DUP_REF
                 /\ written[q].ref_index = FirstWith(q) - 1

\* Entry k of the log is a DUP_REF whose ref_index was read.
IsDupRef(k) == r_log[k].method = METHOD_DUP_REF /\ r_log[k].ref >= 0

\* The entry that DUP_REF entry k names was decoded earlier in the same call.
RefDecodedEarlier(k) ==
    \E j \in 1..(k - 1) : r_log[j].i = r_log[k].ref /\ r_log[j].decoded

\* C3: on a new SORDecompressor, a DUP_REF entry whose ref_index names an entry
\* decoded earlier in the archive yields exactly that entry's bytes; one whose
\* ref_index names an entry that is not materialised (itself, a later entry, or
\* an entry that failed to decode) is reported as failed and yields no bytes.
C3_DupRefOnRead ==
    r.fresh =>
        \A k \in 1..Len(r_log) :
            IsDupRef(k) =>
                IF RefDecodedEarlier(k)
                THEN /\ r_log[k].decoded
                     /\ \A j \in 1..(k - 1) :
                            r_log[j].i = r_log[k].ref => r_log[k].data = r_log[j].data
                ELSE ~r_log[k].ok /\ ~r_log[k].decoded /\ r_log[k].data = <<>>

\* A first read has met a DUP_REF that resolved to an earlier entry and a
\* DUP_REF that failed.
C3_Witness ==
    /\ r.fresh
    /\ \E k \in 1..Len(r_log) :
           IsDupRef(k) /\ RefDecodedEarlier(k) /\ r_log[k].ok /\ r_log[k].data # <<>>
    /\ \E k \in 1..Len(r_log) : IsDupRef(k) /\ ~RefDecodedEarlier(k) /\ ~r_log[k].ok

\* C4: every call starts from an empty dedup table: the first occurrence of a
\* content within an archive is never written as a DUP_REF, and a DUP_REF that
\* resolves on read resolves to an entry decoded earlier in the same archive.
C4_NoSharedDedupState ==
    /\ \A q \in 1..Len(written) :
           FirstWith(q) = q => written[q].method_code # METHOD_DUP_REF
    /\ \A k \in 1..Len(r_log) :
           IsDupRef(k) /\ r_log[k].decoded => RefDecodedEarlier(k)

\* C5: an entry written that is not a DUP_REF has payload_len <= original_size,
\* and payload_len < original_size when its method is not STORE.
C5_StoreFloor ==
    sel.done /\ sel.stat.ok /\ sel.stat.method_code # METHOD_DUP_REF =>
        /\ sel.stat.payload_len <= sel.stat.original_size
        /\ sel.stat.method_code # METHOD_STORE =>
               sel.stat.payload_len < sel.stat.original_size

\* A text entry was written with a method other than STORE although one of the
\* BWT composites made it longer than the original.
C5_Witness ==
    /\ sel.done /\ sel.stat.ok /\ sel.file.ftype = FILE_TYPE_TEXT
    /\ sel.stat.method_code \notin {METHOD_STORE, METHOD_DUP_REF}
    /\ \E k \in 1..Len(sel.stat.cands) :
           /\ sel.stat.cands[k].name = "BWT_RLE_MTF_HUFFMAN"
           /\ sel.stat.cands[k].len > sel.stat.original_size

\* The order in which the claim breaks ties, and the method code of each name.
TieOrder ==
    << "STORE", "LZMA(preset=3)", "LZMA(preset=6)", "LZMA(preset=9)",
       "BWT_RLE_MTF_PPM(order=0)", "BWT_RLE_MTF_PPM(order=1)",
       "BWT_RLE_MTF_PPM(order=2)", "BWT_RLE_MTF_PPM(order=3)",
       "BWT_RLE_MTF_HUFFMAN", "BWT_RLE_MTF_ARITHMETIC", "BWT_LZMA", "PATTERN_LZMA",
       "HUFFMAN" >>

TieOrderCodes ==
    << METHOD_STORE, METHOD_LZMA, METHOD_LZMA, METHOD_LZMA,
       METHOD_BWT_RLE_MTF_PPM, METHOD_BWT_RLE_MTF_PPM,
       METHOD_BWT_RLE_MTF_PPM, METHOD_BWT_RLE_MTF_PPM,
       METHOD_BWT_RLE_MTF_HUFFMAN, METHOD_BWT_RLE_MTF_ARITHMETIC, METHOD_BWT_LZMA,
       METHOD_PATTERN_LZMA, METHOD_HUFFMAN >>

\* The shortest length among the trial encodings of the entry.
ShortestLen(cands) ==
    CHOOSE n \in {cands[k].len : k \in 1..Len(cands)} :
        \A k \in 1..Len(cands) : n <= cands[k].len

\* The position in TieOrder of the candidate the claim says is picked: the first
\* name in that order among the candidates of the shortest length.
ClaimedPick(cands) ==
    LET shortest == {cands[k].name : k \in {j \in 1..Len(cands) :
                                               cands[j].len = ShortestLen(cands)}}
    IN  CHOOSE t \in 1..Len(TieOrder) :
            /\ TieOrder[t] \in shortest
            /\ \A u \in 1..(t - 1) : TieOrder[u] \notin shortest

\* C6 as stated: the method written is the code of a candidate of minimal
\* payload length, the first in the claimed order among those of that length.
C6_AsStated ==
    sel.done /\ sel.stat.ok =>
        sel.stat.method_code = TieOrderCodes[ClaimedPick(sel.stat.cands)]

\* C6: the selector picks a candidate of minimal payload length, the first in
\* the claimed order among those of that length, and the method code written is
\* the code of that candidate unless the content is already in the hash map,
\* in which case DUP_REF is written.
C6_MethodSelection ==
    sel.done /\ sel.stat.ok =>
        /\ sel.stat.method = TieOrder[ClaimedPick(sel.stat.cands)]
        /\ sel.stat.method_code =
               IF sel.dup THEN METHOD_DUP_REF
               ELSE TieOrderCodes[ClaimedPick(sel.stat.cands)]

\* Several candidates share a minimal length that beats the original, and the
\* entry was written with the first of them.
C6_Witness ==
    /\ sel.done /\ sel.stat.ok /\ ~sel.dup
    /\ ShortestLen(sel.stat.cands) < sel.stat.original_size
    /\ Cardinality({k \in 1..Len(sel.stat.cands) :
                       sel.stat.cands[k].len = ShortestLen(sel.stat.cands)}) > 1
    /\ sel.stat.method = "LZMA(preset=3)"
    /\ sel.stat.method_code = METHOD_LZMA

\* C7: a file tagged UNKNOWN gets the candidates of a TEXT file, so the method
\* selected for it is the method selected for the same content tagged TEXT.
C7_UnknownAsText ==
    sel.done /\ sel.stat.ok /\ sel.file.ftype = FILE_TYPE_UNKNOWN =>
        \E text \in {Candidates(FILE_TYPE_TEXT, sel.file.data)} :
            /\ {sel.stat.cands[k].name : k \in 1..Len(sel.stat.cands)}
                 = {text[k].name : k \in 1..Len(text)}
            /\ sel.stat.method = SelectMethod(text, sel.file.data).name

\* C8: for BWT_RLE_MTF_HUFFMAN and BWT_RLE_MTF_ARITHMETIC and every non-empty
\* input, below the encoder's threshold and at or above it, the decoder the
\* reader dispatches for the method returns the input from the encoder's payload.
C8_EntropyCompositesRoundTrip ==
    codec.op \in {"BWT_RLE_MTF_HUFFMAN", "BWT_RLE_MTF_ARITHMETIC"} /\ codec.s # <<>> =>
        codec.out.ok /\ codec.out.val = codec.s

\* C9: for every input, of one block or of several, the PPM composite decoder
\* returns the input from the payload of the PPM composite encoder at order 0.
C9_PpmRoundTrip ==
    codec.op = "BWT_RLE_MTF_PPM" => codec.out.ok /\ codec.out.val = codec.s

\* C10: for every non-empty input, shorter than the BWT block size or not,
\* bwt_lzma_decompress returns the input from the output of bwt_lzma_compress.
C10_BwtLzmaRoundTrip ==
    codec.op = "BWT_LZMA" /\ codec.s # <<>> => codec.out.ok /\ codec.out.val = codec.s


\* C11: for every byte string s, also one that holds bytes of the reserved
\* range 0xF0..0xFF, pattern_decode(pattern_encode(s)) gives s back.
C11_PatternRoundTrip == codec.op = "PATTERN" => codec.out = Ok(codec.s)

\* The call of decompress_from_sor on archive f has gone through all its entries.
ReadDone(f) == r.f = f /\ ~r.active /\ ~r.raised /\ Len(r_log) = r.count

\* C12: when decoding entry i fails (unknown method code, codec error, invalid
\* DUP_REF), entry i gets an error status, the entries after it are still
\* processed, and a later well-formed entry is extracted with its own bytes.
C12_FailuresDoNotAbort ==
    \A f \in FailThenGood :
        ReadDone(f) =>
            /\ ~r_log[1].ok
            /\ r_log[2].ok /\ r_log[2].name = <<98>> /\ r_log[2].data = <<121>>

\* C13: an entry whose decoded bytes are not original_size long is reported as
\* an error and is not written out as an extracted file.
C13_SizeMismatch ==
    \A k \in 1..Len(r_log) :
        r_log[k].ok => Len(r_log[k].data) = r_log[k].original_size

\* C14: a STORE entry whose payload_len asks for more bytes than the archive
\* holds fails with an error and is not returned as a shorter byte string.
C14_Truncated == ReadDone(TruncatedArchive) => ~r_log[1].ok /\ ~r_log[1].decoded

\* C15: an archive with the magic "SOR2" and a version other than 2 makes
\* decompress_from_sor fail before any entry is decoded or written out.
C15_UnsupportedVersion ==
    r.calls > 0 /\ r.is_v2 /\ r.version >= 0 /\ r.version # VERSION
        => r.raised /\ r_log = <<>>

\* The first four bytes of f are neither "SOR2" nor "SOR1".
InvalidMagic(f) == ReadAt(f, 0, 4) \notin {MAGIC, MAGIC_V1}

\* C16: on an archive whose magic is neither "SOR2" nor "SOR1" the call raises
\* with no entry read, no file written and nothing added to decompressed_files,
\* and nothing of that call follows.
C16_InvalidMagic ==
    [][ /\ r'.calls = r.calls + 1 /\ InvalidMagic(r'.f)
           => /\ r'.raised /\ ~r'.active /\ r'.pos = 0
              /\ r_log' = <<>>
              /\ decompressed_files' = decompressed_files
        /\ r.raised /\ r'.calls = r.calls
           => r_log' = r_log /\ decompressed_files' = decompressed_files
      ]_vars

\* The call on the archive with the magic "SOR3" has raised on a decoder whose
\* table holds the entries of an earlier call.
C16_Witness == r.f = BadMagicArchive /\ r.raised /\ decompressed_files # {}

\* C17: a BWT_RLE_MTF_PPM payload whose recorded PPM order is above 0 is
\* rejected by the decoder with an error.
C17_PpmOrderRejected ==
    codec.op \in {"BWT_RLE_MTF_PPM(order=1)", "BWT_RLE_MTF_PPM(order=2)",
                  "BWT_RLE_MTF_PPM(order=3)"} /\ codec.s # <<>>
        => ~codec.out.ok

\* C18: for every non-empty s, periodic ones included, bwt_encode(s) = (L, i)
\* has |L| = |s| and 0 <= i < |s|, and bwt_decode(L, i) = s; for "banana",
\* L = "nnbaaa" and i = 3.
C18_BwtRoundTrip ==
    codec.op = "BWT" /\ codec.s # <<>> =>
        /\ Len(codec.out.last_column) = Len(codec.s)
        /\ codec.out.original_index \in 0..(Len(codec.s) - 1)
        /\ codec.out.ok /\ codec.out.val = codec.s
        /\ codec.s = <<98, 97, 110, 97, 110, 97>> =>
               /\ codec.out.last_column = <<110, 110, 98, 97, 97, 97>>
               /\ codec.out.original_index = 3

\* "banana" has gone through bwt_encode and bwt_decode.
C18_Witness ==
    /\ codec.op = "BWT" /\ codec.s = <<98, 97, 110, 97, 110, 97>>
    /\ codec.out.last_column = <<110, 110, 98, 97, 97, 97>>
    /\ codec.out.val = codec.s

\* C19: for every symbol sequence s, arithmetic_decode of what arithmetic_encode
\* made of s returns exactly len(s) symbols, and they are s; the decoder reads
\* zero bits where the encoded bytes have ended.
C19_ArithmeticRoundTrip ==
    codec.op = "ARITHMETIC" =>
        codec.out.ok /\ Len(codec.out.val) = Len(codec.s) /\ codec.out.val = codec.s

\* A sequence of several distinct symbols came back from fewer encoded bits
\* than the decoder reads before its first symbol.
C19_Witness ==
    /\ codec.op = "ARITHMETIC"
    /\ Cardinality(SeqRange(codec.s)) = 3
    /\ Len(codec.out.enc_bytes) * 8 < PRECISION
    /\ codec.out.val = codec.s

\* a is the beginning of b.
IsPrefix(a, b) == Len(a) <= Len(b) /\ SubSeq(b, 1, Len(a)) = a

\* No code of the table is the beginning of another symbol's code.
PrefixFree(table) ==
    \A x \in table : \A y \in table : x # y => ~IsPrefix(x[2], y[2])

\* C20: for every s with at least two distinct symbols the code table is
\* prefix-free, huffman_decode(huffman_encode(s)) = s, and the recorded padding
\* is the number of zero bits that fill the last byte after the code bits.
C20_HuffmanRoundTrip ==
    codec.op = "HUFFMAN" /\ Cardinality(SeqRange(codec.s)) >= 2 =>
        /\ PrefixFree(codec.out.code_table)
        /\ {x[1] : x \in codec.out.code_table} = SeqRange(codec.s)
        /\ codec.out.ok /\ codec.out.val = codec.s
        /\ codec.out.padding \in 0..7
        /\ BitsOfBytes(codec.out.enc_bytes)
              = EncodeSymbols(codec.s, codec.out.code_table)
                \o Repeat(0, codec.out.padding)

\* A sequence of three distinct symbols came back from bytes whose last one
\* was filled up with padding bits.
C20_Witness ==
    /\ codec.op = "HUFFMAN"
    /\ Cardinality(SeqRange(codec.s)) = 3
    /\ codec.out.padding > 0
    /\ codec.out.val = codec.s

\* The code bits left to the decoder are the codes of a whole number of symbols
\* of s: they do not stop partway through a codeword.
WholeCodewords ==
    \E k \in 0..Len(codec.s) :
        codec.out.kept = EncodeSymbols(SubSeq(codec.s, 1, k), codec.out.code_table)

\* C21: when the code bits left after removing the recorded padding end in the
\* middle of a codeword, huffman_decode fails with an error instead of returning
\* the symbols decoded so far.
C21_MidCodewordFails ==
    codec.op = "HUFFMAN_CUT" /\ Cardinality(SeqRange(codec.s)) >= 2 /\ ~WholeCodewords
        => ~codec.out.ok


\* C22: rle_encode(s) is a sequence of (value, count) pairs with every count in
\* 1..255, a run longer than 255 is split into pairs of which all but the last
\* hold 255, the encoding of the empty sequence is empty,
\* rle_decode(rle_encode(s)) = s, and rle_decode of an odd-length input fails.
C22_RleRoundTrip ==
    /\ codec.op = "RLE" =>
           /\ Len(codec.out.enc) % 2 = 0
           /\ \A j \in 1..(Len(codec.out.enc) \div 2) :
                  /\ codec.out.enc[2 * j] \in 1..255
                  /\ 2 * j < Len(codec.out.enc)
                     /\ codec.out.enc[(2 * j) - 1] = codec.out.enc[(2 * j) + 1]
                        => codec.out.enc[2 * j] = 255
           /\ (codec.out.data = <<>> => codec.out.enc = <<>>)
           /\ codec.out.ok /\ codec.out.val = codec.out.data
    /\ codec.op = "RLE_ODD" => ~codec.out.ok

\* A run of more than 255 equal bytes was split into two pairs and came back.
C22_Witness ==
    /\ codec.op = "RLE"
    /\ codec.out.data = Stretch(<<97>>, 256)
    /\ codec.out.enc = <<97, 255, 97, 1>>
    /\ codec.out.val = codec.out.data


\* t holds each of 0..255 exactly once.
IsPermutation(t) == Len(t) = 256 /\ \A v \in 0..255 : \E k \in 1..256 : t[k] = v

\* C23: every element of mtf_encode(s) is in 0..255, mtf_decode(mtf_encode(s))
\* = s, and after every step the symbol table of the encoder and that of the
\* decoder are permutations of 0..255 and equal to each other.
C23_MtfRoundTrip ==
    codec.op = "MTF" =>
        /\ Len(codec.out.enc) = Len(codec.s)
        /\ \A k \in 1..Len(codec.out.enc) :
               /\ codec.out.enc[k] \in 0..255
               /\ IsPermutation(codec.out.enc_tables[k])
               /\ codec.out.dec_tables[k] = codec.out.enc_tables[k]
        /\ codec.out.ok /\ codec.out.val = codec.s

\* b"aaaa" became [97, 0, 0, 0] and came back.
C23_Witness ==
    /\ codec.op = "MTF"
    /\ codec.s = <<97, 97, 97, 97>>
    /\ codec.out.enc = <<97, 0, 0, 0>>
    /\ codec.out.val = codec.s


\* The components of a path: what lies between its slashes.
Components(path) == SplitOn(path, 47)

\* The parts of name with the forbidden characters replaced by '_' and the
\* spaces and dots at both ends removed, in order.
CleanParts(name) ==
    LET parts == Components(name)
        Clean(part) ==
            LET t == [i \in 1..Len(part) |->
                        IF part[i] \in {58, 42, 63, 34, 60, 62, 124, 92} \/ part[i] < 32
                        THEN 95 ELSE part[i]]
                lead == Cardinality({i \in 1..Len(t) :
                                       \A j \in 1..i : t[j] \in {32, 46}})
                trail == Cardinality({i \in 1..Len(t) :
                                        \A j \in i..Len(t) : t[j] \in {32, 46}})
            IN  SubSeq(t, lead + 1, Len(t) - trail)
    IN  [k \in 1..Len(parts) |-> Clean(parts[k])]

C26_BwtBlockRoundTrip ==
    codec.op = "BWT_BLOCK" /\ codec.s # <<>> =>
        codec.out.ok /\ codec.out.val = codec.s

\* Every hash of the map has one index, no two hashes share an index, and the
\* indices are 0..|hash_map|-1.
IsDedupTable(m) ==
    /\ \A e1, e2 \in m : (e1[1] = e2[1] \/ e1[2] = e2[2]) => e1 = e2
    /\ {e[2] : e \in m} = 0..(Cardinality(m) - 1)

\* The number of distinct contents among the first q entries written.
DistinctUpTo(q) == Cardinality({written[p].data : p \in 1..q})

\* One step of the file loop: no pair leaves the map, a content already in it
\* leaves it unchanged, and a new content gets the size of the map as index;
\* a file that cannot be read adds nothing.
DedupStep ==
    /\ hash_map \subseteq hash_map'
    /\ Len(w_files') = Len(w_files) + 1 /\ w_files'[Len(w_files')].readable =>
          LET file_hash == sha256(w_files'[Len(w_files')].data)
          IN  IF \E e \in hash_map : e[1] = file_hash
              THEN hash_map' = hash_map
              ELSE hash_map' \ hash_map = {<<file_hash, Cardinality(hash_map)>>}
    /\ Len(w_files') = Len(w_files) + 1 /\ ~w_files'[Len(w_files')].readable =>
          hash_map' = hash_map

\* C27: after any sequence of files processed by one SORCompressor, hash_map
\* maps each distinct content to a distinct index, the indices are exactly
\* 0..|hash_map|-1, the n-th new content in write order holds index n, an index
\* once assigned never changes, and a duplicate leaves hash_map unchanged.
C27_DedupTable ==
    /\ [](IsDedupTable(hash_map))
    /\ [](w.fresh =>
            \A q \in 1..Len(written) :
                HashGet(hash_map, sha256(written[q].data)) = DistinctUpTo(FirstWith(q)) - 1)
    /\ [][DedupStep]_vars

\* Both contents have been seen by a SORCompressor that went on to write a
\* duplicate of the second one in a later call.
C27_Witness ==
    /\ Cardinality(hash_map) = 2
    /\ ~w.fresh /\ Len(written) >= 1
    /\ written[Len(written)].method_code = METHOD_DUP_REF
    /\ HashGet(hash_map, sha256(written[Len(written)].data)) = 1

\* The offset after the entry record that starts at pos, or -1 when the bytes
\* from pos on do not hold a whole record: name_len, name, type, method,
\* original_size, and ref_index or payload_len and payload.
RecordEnd(f, pos) ==
    IF pos < 0 \/ pos + 2 > Len(f) THEN -1
    ELSE LET p1 == pos + 2 + FromLE(ReadAt(f, pos, 2))
         IN  IF p1 + 6 + 4 > Len(f) THEN -1
             ELSE IF f[p1 + 2] = METHOD_DUP_REF THEN p1 + 10
             ELSE IF p1 + 10 + FromLE(ReadAt(f, p1 + 6, 4)) > Len(f) THEN -1
             ELSE p1 + 10 + FromLE(ReadAt(f, p1 + 6, 4))

\* The offset after n records from pos on, or -1.
RECURSIVE RecordsEnd(_, _, _)
RecordsEnd(f, pos, n) ==
    IF n = 0 THEN pos ELSE RecordsEnd(f, RecordEnd(f, pos), n - 1)

\* compress_to_sor has returned.
CompressDone == ~w.active /\ Len(sor) >= 12 /\ Len(w_files) = w.count

\* C28: after compress_to_sor returns, the archive holds exactly entry_count
\* complete entry records, entry_count being the value in the header, also when
\* an input file cannot be read.
C28_CountMatchesRecords ==
    CompressDone => RecordsEnd(sor, 12, FromLE(ReadAt(sor, 8, 4))) = Len(sor)

\* C29: for every non-empty sequence s made of one distinct symbol, the encoder
\* gives that symbol the one-bit code "0" and
\* HuffmanCompressor.decompress(HuffmanCompressor.compress(s)) = s.
C29_SingleSymbolRoundTrip ==
    /\ codec.op = "HUFFMAN_COMPRESSOR"
    /\ codec.s # <<>>
    /\ Cardinality(SeqRange(codec.s)) = 1
    => /\ codec.out.code_table = {<<codec.s[1], <<0>>>>}
       /\ codec.out.ok
       /\ codec.out.val = codec.s

\* The bits written and pending after symbol k of the encoder (none before the
\* first): each pass of the renormalisation loop adds one to their number.
Shifted(k) ==
    IF k = 0 THEN 0 ELSE Len(codec.out.enc[k].bits) + codec.out.enc[k].pending

\* C30: for every input whose symbol total is at most QUARTER, after the
\* renormalisation loop of each symbol the encoder has 0 <= low < high <= MASK
\* and high - low + 1 > QUARTER, the loop has ended (after at most PRECISION
\* passes), and at every symbol the decoder's (low, high) are the encoder's,
\* with low <= value <= high.
C30_IntervalInvariant ==
    codec.op = "ARITHMETIC_TRACE" /\ codec.out.total <= QUARTER =>
        /\ codec.out.value0 \in 0..MASK
        /\ \A k \in 1..Len(codec.s) :
              LET e == codec.out.enc[k]
                  d == codec.out.dec[k]
              IN  /\ 0 <= e.low /\ e.low < e.high /\ e.high <= MASK
                  /\ e.high - e.low + 1 > QUARTER
                  /\ Shifted(k) - Shifted(k - 1) \in 0..PRECISION
                  /\ d.ok /\ Len(d.out) = k
                  /\ d.low = e.low /\ d.high = e.high
                  /\ d.low <= d.value /\ d.value <= d.high

\* The word "banana" has gone through both coders, and the encoder has both
\* written bits and left bits pending on the way.
C30_Witness ==
    /\ codec.op = "ARITHMETIC_TRACE"
    /\ codec.s = <<98, 97, 110, 97, 110, 97>>
    /\ codec.out.ok /\ codec.out.val = codec.s
    /\ \E k \in 1..Len(codec.s) : codec.out.enc[k].pending > 0
    /\ \E k \in 1..Len(codec.s) : Shifted(k) - Shifted(k - 1) >= 2
    /\ codec.out.dec[Len(codec.s)].pos > PRECISION

=========================================================================
